---- MODULE Spec2Model ----
(***************************************************************************)
(* Nodealigner: the streaming rewriter of io_stream.rs                     *)
(* (stream_replace_chrom_to_tmp), the coordinate resolver it contains, the *)
(* chromosome-name normalizer (apply_ignore_rules) and the way align_main  *)
(* prepares the node maps.                                                 *)
(*                                                                         *)
(* Text is modelled as sequences of one-character strings, so that         *)
(* splitting, joining, searching, parsing and formatting are computed the  *)
(* way the Rust code computes them.  u64 values are four 16-bit limbs      *)
(* (least significant first), so that parse overflow, the u32 cast and     *)
(* saturating_add keep their width.                                        *)
(***************************************************************************)
EXTENDS Integers, Sequences, FiniteSets, TLC

(***************************************************************************)
(* Option<T>                                                               *)
(***************************************************************************)
None == [some |-> FALSE]
Some(x) == [some |-> TRUE, v |-> x]

(***************************************************************************)
(* Characters and strings                                                  *)
(***************************************************************************)
TAB == "\t"

DigitChars == <<"0", "1", "2", "3", "4", "5", "6", "7", "8", "9">>

UpperLetters ==
  <<"A", "B", "C", "D", "E", "F", "G", "H", "I", "J", "K", "L", "M",
    "N", "O", "P", "Q", "R", "S", "T", "U", "V", "W", "X", "Y", "Z">>

LowerLetters ==
  <<"a", "b", "c", "d", "e", "f", "g", "h", "i", "j", "k", "l", "m",
    "n", "o", "p", "q", "r", "s", "t", "u", "v", "w", "x", "y", "z">>

is_ascii_digit(c) == \E i \in 1..10 : DigitChars[i] = c

DigitVal(c) == (CHOOSE i \in 1..10 : DigitChars[i] = c) - 1

char_to_ascii_uppercase(c) ==
  IF \E i \in 1..26 : LowerLetters[i] = c
    THEN UpperLetters[CHOOSE i \in 1..26 : LowerLetters[i] = c]
    ELSE c

char_to_ascii_lowercase(c) ==
  IF \E i \in 1..26 : UpperLetters[i] = c
    THEN LowerLetters[CHOOSE i \in 1..26 : UpperLetters[i] = c]
    ELSE c

to_ascii_lowercase(s) ==
  IF Len(s) = 0 THEN <<>>
  ELSE [i \in 1..Len(s) |-> char_to_ascii_lowercase(s[i])]

\* char::is_whitespace on the ASCII range
is_whitespace(c) == c \in {" ", "\t", "\n", "\r", "\f"}

RECURSIVE trim_start(_)
trim_start(s) ==
  IF Len(s) > 0 /\ is_whitespace(s[1]) THEN trim_start(Tail(s)) ELSE s

RECURSIVE trim_end(_)
trim_end(s) ==
  IF Len(s) > 0 /\ is_whitespace(s[Len(s)])
    THEN trim_end(SubSeq(s, 1, Len(s) - 1))
    ELSE s

trim(s) == trim_end(trim_start(s))

\* str::contains(&str): a substring match
contains(s, k) ==
  \E i \in 0..(Len(s) - Len(k)) : SubSeq(s, i + 1, i + Len(k)) = k

starts_with(s, k) == Len(s) >= Len(k) /\ SubSeq(s, 1, Len(k)) = k

\* str::rfind(&str): 0-based index of the last match
rfind(s, k) ==
  LET hits == {i \in 0..(Len(s) - Len(k)) : SubSeq(s, i + 1, i + Len(k)) = k}
  IN IF hits = {} THEN None
     ELSE Some(CHOOSE i \in hits : \A j \in hits : j <= i)

\* str::split('\t').collect(): always at least one field
RECURSIVE split(_)
split(s) ==
  LET tabs == {i \in 1..Len(s) : s[i] = TAB}
  IN IF tabs = {} THEN <<s>>
     ELSE LET i == CHOOSE t \in tabs : \A u \in tabs : t <= u
          IN <<SubSeq(s, 1, i - 1)>> \o split(SubSeq(s, i + 1, Len(s)))

\* [String]::join("\t")
RECURSIVE join(_)
join(fs) ==
  IF Len(fs) = 0 THEN <<>>
  ELSE IF Len(fs) = 1 THEN fs[1]
  ELSE fs[1] \o <<TAB>> \o join(Tail(fs))

(***************************************************************************)
(* u64: four 16-bit limbs, least significant first                         *)
(***************************************************************************)
LimbBase == 2^16

U64Zero == <<0, 0, 0, 0>>

U64Max == <<LimbBase - 1, LimbBase - 1, LimbBase - 1, LimbBase - 1>>

\* a small natural number (below 2^31) as a u64
U64Of(n) == <<n % LimbBase, n \div LimbBase, 0, 0>>

\* a < b on u64
U64Lt(a, b) ==
  \E i \in 1..4 : a[i] < b[i] /\ \A j \in (i + 1)..4 : a[j] = b[j]

U64Le(a, b) == a = b \/ U64Lt(a, b)

\* v * 10 + d with the carry out of the top limb (checked_mul, checked_add)
MulAdd10(v, d) ==
  LET t1 == v[1] * 10 + d
      t2 == v[2] * 10 + (t1 \div LimbBase)
      t3 == v[3] * 10 + (t2 \div LimbBase)
      t4 == v[4] * 10 + (t3 \div LimbBase)
  IN [val |-> <<t1 % LimbBase, t2 % LimbBase, t3 % LimbBase, t4 % LimbBase>>,
      carry |-> t4 \div LimbBase]

RECURSIVE ParseDigits(_, _)
ParseDigits(s, acc) ==
  IF Len(s) = 0 THEN Some(acc)
  ELSE IF ~is_ascii_digit(s[1]) THEN None
  ELSE LET r == MulAdd10(acc, DigitVal(s[1]))
       IN IF r.carry # 0 THEN None ELSE ParseDigits(Tail(s), r.val)

\* str::parse::<u64>(): an optional '+', then one or more digits, no overflow
parse_u64(s) ==
  LET body == IF Len(s) > 0 /\ s[1] = "+" THEN Tail(s) ELSE s
  IN IF Len(body) = 0 THEN None ELSE ParseDigits(body, U64Zero)

\* str::parse::<u32>()
parse_u32(s) ==
  LET r == parse_u64(s)
  IN IF r.some /\ r.v[3] = 0 /\ r.v[4] = 0 THEN r ELSE None

\* v divided by 10: quotient and remainder
DivMod10(v) ==
  LET c4 == v[4]
      c3 == (c4 % 10) * LimbBase + v[3]
      c2 == (c3 % 10) * LimbBase + v[2]
      c1 == (c2 % 10) * LimbBase + v[1]
  IN [q |-> <<c1 \div 10, c2 \div 10, c3 \div 10, c4 \div 10>>, r |-> c1 % 10]

RECURSIVE DigitsOf(_)
DigitsOf(v) ==
  IF v = U64Zero THEN <<>>
  ELSE LET d == DivMod10(v) IN DigitsOf(d.q) \o <<DigitChars[d.r + 1]>>

\* u64::to_string()
u64_to_string(v) == IF v = U64Zero THEN <<"0">> ELSE DigitsOf(v)

\* u64::saturating_add
saturating_add(a, b) ==
  LET t1 == a[1] + b[1]
      t2 == a[2] + b[2] + (t1 \div LimbBase)
      t3 == a[3] + b[3] + (t2 \div LimbBase)
      t4 == a[4] + b[4] + (t3 \div LimbBase)
  IN IF t4 \div LimbBase # 0 THEN U64Max
     ELSE <<t1 % LimbBase, t2 % LimbBase, t3 % LimbBase, t4 % LimbBase>>

\* `node_id as u32`: truncation to the low 32 bits
as_u32(v) == <<v[1], v[2], 0, 0>>

(***************************************************************************)
(* io_stream.rs: skip check, node id, normalizer                           *)
(***************************************************************************)
StrChr == <<"c", "h", "r">>

\* the emptiness test on the keyword left out
should_skip_chrom_any(chrom, skipSet) ==
  /\ skipSet # {}
  /\ \E k \in skipSet : contains(chrom, k)

should_skip_chrom(chrom, skipSet) ==
  /\ skipSet # {}
  /\ \E k \in skipSet : Len(k) # 0 /\ contains(chrom, k)

\* the loop of parse_node_id_from_chrom: walk from the end, collect digits,
\* stop at the first non-digit met after a digit
RECURSIVE LastDigitRun(_, _)
LastDigitRun(s, digits) ==
  IF Len(s) = 0 THEN digits
  ELSE LET c == s[Len(s)]
           front == SubSeq(s, 1, Len(s) - 1)
       IN IF is_ascii_digit(c) THEN LastDigitRun(front, <<c>> \o digits)
          ELSE IF Len(digits) # 0 THEN digits
          ELSE LastDigitRun(front, digits)

parse_node_id_from_chrom(chrom) ==
  LET fast == parse_u64(chrom)
      digits_fwd == LastDigitRun(chrom, <<>>)
  IN IF fast.some THEN fast
     ELSE IF Len(digits_fwd) = 0 THEN None
     ELSE parse_u64(digits_fwd)

\* the token loop of extract_chr_token: digits or X/Y/M, upper-cased
RECURSIVE TokenRun(_)
TokenRun(tail) ==
  IF Len(tail) = 0 THEN <<>>
  ELSE LET c == char_to_ascii_uppercase(tail[1])
       IN IF is_ascii_digit(c) \/ c = "X" \/ c = "Y" \/ c = "M"
            THEN <<c>> \o TokenRun(Tail(tail))
            ELSE <<>>

\* (token_upper, has_suffix_after_token, found_chr)
extract_chr_token(raw) ==
  LET idx == rfind(to_ascii_lowercase(raw), StrChr)
  IN IF idx.some
       THEN LET tail == SubSeq(raw, idx.v + 4, Len(raw))
                token == TokenRun(tail)
            IN IF Len(token) = 0
                 THEN [tok |-> None, has_suffix |-> Len(tail) # 0,
                       found_chr |-> TRUE]
                 ELSE [tok |-> Some(token),
                       has_suffix |-> Len(tail) > Len(token),
                       found_chr |-> TRUE]
       ELSE [tok |-> None, has_suffix |-> FALSE, found_chr |-> FALSE]

AllDigits(t) == \A i \in 1..Len(t) : is_ascii_digit(t[i])

is_std_human_chr_token_noUpperLimit(token_upper) ==
  IF token_upper \in {<<"X">>, <<"Y">>, <<"M">>} THEN TRUE
  ELSE /\ AllDigits(token_upper)
       /\ LET n == parse_u32(token_upper)
          IN n.some /\ (n.v[2] > 0 \/ n.v[1] >= 1)

is_std_human_chr_token(token_upper) ==
  IF token_upper \in {<<"X">>, <<"Y">>, <<"M">>} THEN TRUE
  ELSE /\ AllDigits(token_upper)
       /\ LET n == parse_u32(token_upper)
          IN n.some /\ n.v[2] = 0 /\ n.v[1] >= 1 /\ n.v[1] <= 22

apply_ignore_rules_rejectUnknown(raw, level) ==
  LET e == extract_chr_token(raw)
  IN CASE level = 0 -> Some(raw)
       [] level = 1 ->
            IF contains(to_ascii_lowercase(raw), StrChr) THEN Some(raw) ELSE None
       [] level = 2 ->
            IF ~e.found_chr THEN None
            ELSE IF ~e.tok.some THEN None
            ELSE IF e.tok.v \in {<<"X">>, <<"Y">>, <<"M">>} \/ AllDigits(e.tok.v)
              THEN Some(raw) ELSE None
       [] level = 3 ->
            IF ~e.found_chr THEN None
            ELSE IF ~e.tok.some THEN None
            ELSE IF e.has_suffix THEN None
            ELSE Some(raw)
       [] level = 4 ->
            IF ~e.found_chr THEN None
            ELSE IF ~e.tok.some THEN None
            ELSE IF ~is_std_human_chr_token(e.tok.v) THEN None
            ELSE Some(StrChr \o e.tok.v)
       [] level = 5 ->
            IF ~e.found_chr THEN None
            ELSE IF ~e.tok.some THEN None
            ELSE IF ~is_std_human_chr_token(e.tok.v) THEN None
            ELSE Some(e.tok.v)
       [] OTHER -> None

apply_ignore_rules(raw, level) ==
  LET e == extract_chr_token(raw)
  IN CASE level = 0 -> Some(raw)
       [] level = 1 ->
            IF contains(to_ascii_lowercase(raw), StrChr) THEN Some(raw) ELSE None
       [] level = 2 ->
            IF ~e.found_chr THEN None
            ELSE IF ~e.tok.some THEN None
            ELSE IF e.tok.v \in {<<"X">>, <<"Y">>, <<"M">>} \/ AllDigits(e.tok.v)
              THEN Some(raw) ELSE None
       [] level = 3 ->
            IF ~e.found_chr THEN None
            ELSE IF ~e.tok.some THEN None
            ELSE IF e.has_suffix THEN None
            ELSE Some(raw)
       [] level = 4 ->
            IF ~e.found_chr THEN None
            ELSE IF ~e.tok.some THEN None
            ELSE IF ~is_std_human_chr_token(e.tok.v) THEN None
            ELSE Some(StrChr \o e.tok.v)
       [] level = 5 ->
            IF ~e.found_chr THEN None
            ELSE IF ~e.tok.some THEN None
            ELSE IF ~is_std_human_chr_token(e.tok.v) THEN None
            ELSE Some(e.tok.v)
       [] OTHER -> Some(raw)

(***************************************************************************)
(* State                                                                   *)
(***************************************************************************)
VARIABLES
  node2aln,        \* the node -> AlnInfo map handed to the rewriter
  REF_NODE2PATH,   \* OnceLock<HashMap<u64, String>>
  REF_NODE2START,  \* OnceLock<HashMap<u64, u64>>
  REF_NODE2SEQ,    \* OnceLock<HashMap<u64, String>>
  skip,            \* the skip substrings
  ignore_level,    \* 0..=5
  gfa,             \* Option<&Gfa>
  aln_paths,       \* node -> path as read from the alignment table
  vcf,             \* the lines of the input file
  cursor,          \* how many of them the loop has consumed
  out,             \* the lines written to tmp_out_path
  stats,           \* StreamStats
  pass,            \* 1: first run, 2: run over the first run's output
  pc,              \* "run" inside the loop, "done" after Ok(stats)
  nm_raw,          \* the name handed to apply_ignore_rules
  nm_level,        \* the level handed to it (u8)
  nm_io,           \* what io_stream::apply_ignore_rules returned, once called
  nm_header,       \* what header::apply_ignore_rules returned, once called
  nm_extract,      \* what extract::apply_ignore_rules returned, once called
  pre_header,      \* the ## lines read before the column header
  spool,           \* the body lines, as spooled
  blocks,          \* Vec<Block>: the body cut into blocks
  results,         \* what each block's closure returned, once it has run
  merged,          \* how many results the final loop has merged
  inferred,        \* (final_info, final_fmt, any_first)
  decl_lines,      \* the INFO and FORMAT lines pushed to new_header
  reference_tsv,   \* the lines of the reference table
  ignore,          \* the level handed to header_run (u8)
  ref_i,           \* how many lines parse_reference_tsv has read
  contigs,         \* Contigs: path -> largest end
  norm_map,        \* normalized id -> largest len
  contig_lines,    \* the ##contig lines pushed to new_header
  command,         \* the subcommand run: align or header
  sort_enabled,    \* --sort
  no_header,       \* --no-header
  disk,            \* the files that exist: name -> what was written to it
  step,            \* where the pipeline stands
  outcome,         \* what the command returned, once it has
  graph,           \* the parsed graph: its paths and node sequences
  extract_level,   \* ignore_level of extract_main (u8)
  sink,            \* the lines that reached the output file
  worker,          \* per path: todo, buffered or done
  local_buf,       \* per path: the rows of the closure's local_buf
  write_errors,    \* how many write_all errors the closures have dropped
  extract_step,    \* where extract_main stands
  extract_ret,     \* what extract_main returned, once it has
  nid_chrom,       \* fields[0] of the record
  nid_pos,         \* fields[1] of the record
  nid_out,         \* node_id_opt, once derived
  aln_table,       \* the lines of the alignment table
  aln_i,           \* how many of them read_alignment_tsv has read
  idx_node,        \* Option<usize>: the node column
  idx_path,        \* Option<usize>: the path column
  idx_distance,    \* Option<usize>: the distance column
  idx_position,    \* Option<usize>: the position column
  header_seen,     \* whether a header row has been taken
  aln_store,       \* map: HashMap<u64, AlnInfo>
  aln_ret,         \* what read_alignment_tsv returned, once it has
  ref_calls,       \* the tables handed to read_reference_tsv, call by call
  ref_call,        \* the call under way, from 1
  ref_line,        \* how many lines the call under way has read
  map_path,        \* map_path of the call under way
  map_start,       \* map_start of the call under way
  map_seq,         \* map_seq of the call under way
  ref_returned,    \* per finished call: the maps it built
  rn_vcf,          \* the lines of the VCF
  rn_qtl,          \* the lines of the QTL table
  map_mode,        \* --map-mode
  rn_run,          \* 1: map.tsv is built, 2: the map.tsv of run 1 is there
  rn_step,         \* where run_rename stands
  rn_i,            \* how many lines of the file being read are consumed
  id_key_map,      \* map while it is built, id_key_map after
  pos_map,         \* POS -> key, while unique
  pos_dupe,        \* the POS seen with two keys
  map_tmp,         \* the lines of map.tsv.tmp, while it exists
  map_final,       \* the lines of map.tsv, once it exists
  renamed,         \* the lines written to the .renamed.tsv of this run
  rebuilt,         \* the .renamed.tsv of run 1, once run 2 has begun
  sort_in,         \* the lines of tmp_out
  prefix_key,      \* the column named with --sort
  reverse,         \* --reverse
  sort_step,       \* where the sort stage stands
  sort_i,          \* how many lines of tmp_out are read
  header_lines,    \* Vec<String>: the lines that start with #
  data_lines,      \* Vec<String>: the other lines
  sorted_file      \* the lines written to final_output_path

rewriterVars ==
  <<node2aln, REF_NODE2PATH, REF_NODE2START, REF_NODE2SEQ, skip,
    ignore_level, gfa, aln_paths, vcf, cursor, out, stats, pass, pc>>

normVars == <<nm_raw, nm_level, nm_io, nm_header, nm_extract>>

inferVars ==
  <<pre_header, spool, blocks, results, merged, inferred, decl_lines>>

contigVars ==
  <<reference_tsv, ignore, ref_i, contigs, norm_map, contig_lines>>

publishVars == <<command, sort_enabled, no_header, disk, step, outcome>>

extractVars ==
  <<graph, extract_level, sink, worker, local_buf, write_errors,
    extract_step, extract_ret>>

nodeIdVars == <<nid_chrom, nid_pos, nid_out>>

alnLoadVars ==
  <<aln_table, aln_i, idx_node, idx_path, idx_distance, idx_position,
    header_seen, aln_store, aln_ret>>

refLoadVars ==
  <<ref_calls, ref_call, ref_line, map_path, map_start, map_seq,
    ref_returned>>

renameVars ==
  <<rn_vcf, rn_qtl, map_mode, rn_run, rn_step, rn_i, id_key_map, pos_map,
    pos_dupe, map_tmp, map_final, renamed, rebuilt>>

sortVars ==
  <<sort_in, prefix_key, reverse, sort_step, sort_i, header_lines,
    data_lines, sorted_file>>

vars == <<rewriterVars, normVars, inferVars, contigVars, publishVars,
         extractVars, nodeIdVars, alnLoadVars, refLoadVars, renameVars,
         sortVars>>

\* the variables of the other components, which the rewriter leaves alone
notRewriter == <<normVars, inferVars, contigVars, publishVars,
                   extractVars, nodeIdVars, alnLoadVars, refLoadVars,
                   renameVars, sortVars>>

notNorm == <<rewriterVars, inferVars, contigVars, publishVars,
               extractVars, nodeIdVars, alnLoadVars, refLoadVars,
               renameVars, sortVars>>

notInfer == <<rewriterVars, normVars, contigVars, publishVars,
                extractVars, nodeIdVars, alnLoadVars, refLoadVars,
                renameVars, sortVars>>

notContig == <<rewriterVars, normVars, inferVars, publishVars,
                 extractVars, nodeIdVars, alnLoadVars, refLoadVars,
                 renameVars, sortVars>>

notPublish == <<rewriterVars, normVars, inferVars, contigVars,
                  extractVars, nodeIdVars, alnLoadVars, refLoadVars,
                  renameVars, sortVars>>

notExtract == <<rewriterVars, normVars, inferVars, contigVars,
                  publishVars, nodeIdVars, alnLoadVars, refLoadVars,
                  renameVars, sortVars>>

notNodeId == <<rewriterVars, normVars, inferVars, contigVars,
                 publishVars, extractVars, alnLoadVars, refLoadVars,
                 renameVars, sortVars>>

notAlnLoad == <<rewriterVars, normVars, inferVars, contigVars,
                  publishVars, extractVars, nodeIdVars, refLoadVars,
                  renameVars, sortVars>>

notRefLoad == <<rewriterVars, normVars, inferVars, contigVars,
                  publishVars, extractVars, nodeIdVars, alnLoadVars,
                  renameVars, sortVars>>

\* the same without the rewriter, whose cells read_reference_tsv sets
notRefLoadNorRewriter ==
  <<normVars, inferVars, contigVars, publishVars, extractVars, nodeIdVars,
    alnLoadVars, renameVars, sortVars>>

notRename == <<rewriterVars, normVars, inferVars, contigVars,
                 publishVars, extractVars, nodeIdVars, alnLoadVars,
                 refLoadVars, sortVars>>

notSort == <<rewriterVars, normVars, inferVars, contigVars, publishVars,
               extractVars, nodeIdVars, alnLoadVars, refLoadVars, renameVars>>

config ==
  <<node2aln, REF_NODE2PATH, REF_NODE2START, REF_NODE2SEQ, skip,
    ignore_level, gfa, aln_paths>>

\* StreamStats::default()
StreamStats ==
  [total |-> 0, replaced |-> 0, skipped |-> 0, unmapped |-> 0,
   replaced_chrom |-> 0, replaced_pos |-> 0, replaced_id |-> 0,
   replaced_ref |-> 0, missing_start |-> 0, missing_seq |-> 0,
   used_ref_map |-> 0, used_aln_map |-> 0]

Inc(st, f) == [st EXCEPT ![f] = @ + 1]

\* HashMap::get
MapGet(m, k) == IF k \in DOMAIN m THEN Some(m[k]) ELSE None

\* OnceLock::get().and_then(|m| m.get(&k))
OnceGet(cell, k) == IF cell.some THEN MapGet(cell.v, k) ELSE None

(***************************************************************************)
(* The coordinate resolver inside stream_replace_chrom_to_tmp              *)
(***************************************************************************)
POS_SENTINEL == 1000000000

\* lines 298-305: CHROM first, POS only when CHROM gives nothing
node_id_opt(fields) ==
  LET chrom_node_id_opt == parse_node_id_from_chrom(fields[1])
  IN IF chrom_node_id_opt.some THEN chrom_node_id_opt
     ELSE parse_u64(trim(fields[2]))

\* lines 316-323: alignment map first, then REF_NODE2PATH
chosen_path_opt(node_id) ==
  LET aln_info == MapGet(node2aln, node_id)
      path_from_ref == OnceGet(REF_NODE2PATH, node_id)
  IN IF aln_info.some THEN Some(aln_info.v.path) ELSE path_from_ref

\* ID taken from column 0 instead of column 1
IdStage_col0(r) ==
  IF Len(r.f) >= 3
    THEN [f |-> [r.f EXCEPT ![3] = r.f[1]], st |-> Inc(r.st, "replaced_id")]
    ELSE r

\* lines 330-334: ID := original POS when there is a third column
IdStage(r) ==
  IF Len(r.f) >= 3
    THEN [f |-> [r.f EXCEPT ![3] = r.f[2]], st |-> Inc(r.st, "replaced_id")]
    ELSE r

\* lines 336-337
ChromStage(r, norm_chr) ==
  [f |-> [r.f EXCEPT ![1] = norm_chr], st |-> Inc(r.st, "replaced_chrom")]

\* lines 341-350: the graph accessor, when supplied and covering the node
GfaStage(r, node_id) ==
  IF gfa.some
    THEN LET nid_u32 == as_u32(node_id)
         IN IF U64Le(U64Of(gfa.v.low), nid_u32) /\ U64Le(nid_u32, U64Of(gfa.v.high))
              THEN IF Len(r.f) >= 4
                     THEN [f |-> [r.f EXCEPT ![4] = gfa.v.seq[nid_u32]],
                           st |-> Inc(r.st, "replaced_ref")]
                     ELSE r
              ELSE r
    ELSE r

\* lines 340, 351-360: ref_set is bound to false and never changed
RefSeqStage(r, node_id) ==
  LET ref_set == FALSE
      seq_from_ref == OnceGet(REF_NODE2SEQ, node_id)
  IN IF ~ref_set
       THEN IF seq_from_ref.some
              THEN IF Len(r.f) >= 4
                     THEN [f |-> [r.f EXCEPT ![4] = seq_from_ref.v],
                           st |-> Inc(r.st, "replaced_ref")]
                     ELSE r
              ELSE [r EXCEPT !.st = Inc(r.st, "missing_seq")]
       ELSE r

\* the sentinel compared with >= instead of >
new_pos_ge(a) ==
  IF a.distance >= POS_SENTINEL THEN a.position
  ELSE LET offset == IF a.distance >= -1 THEN U64Of(a.distance + 1) ELSE U64Zero
       IN saturating_add(offset, a.position)

\* lines 370-379
new_pos(a) ==
  IF a.distance > POS_SENTINEL THEN a.position
  ELSE LET offset == IF a.distance >= -1 THEN U64Of(a.distance + 1) ELSE U64Zero
       IN saturating_add(offset, a.position)

\* the reference start never consulted
PosStage_noRefStart(r, node_id) ==
  LET aln_info == MapGet(node2aln, node_id)
  IN IF aln_info.some
       THEN [f |-> [r.f EXCEPT ![2] = u64_to_string(new_pos(aln_info.v))],
             st |-> Inc(Inc(r.st, "replaced_pos"), "used_aln_map")]
       ELSE [r EXCEPT !.st = Inc(r.st, "missing_start")]

\* lines 363-397
PosStage(r, node_id) ==
  LET aln_info == MapGet(node2aln, node_id)
      start_val == OnceGet(REF_NODE2START, node_id)
  IN IF aln_info.some
       THEN [f |-> [r.f EXCEPT ![2] = u64_to_string(new_pos(aln_info.v))],
             st |-> Inc(Inc(r.st, "replaced_pos"), "used_aln_map")]
       ELSE IF start_val.some
         THEN [f |-> [r.f EXCEPT ![2] = u64_to_string(start_val.v)],
               st |-> Inc(Inc(r.st, "replaced_pos"), "used_ref_map")]
         ELSE [r EXCEPT !.st = Inc(r.st, "missing_start")]

\* lines 326-401: a path was found and the normalizer kept it
Replace(fields, st, node_id, norm_chr) ==
  LET r == PosStage(RefSeqStage(GfaStage(ChromStage(IdStage(
             [f |-> fields, st |-> st]), norm_chr), node_id), node_id), node_id)
  IN [emit |-> <<join(r.f)>>, st |-> Inc(r.st, "replaced")]

\* a rejected raw CHROM counted as unmapped
Passthrough_rejectUnmapped(fields, st) ==
  LET norm == apply_ignore_rules(fields[1], ignore_level)
  IN IF norm.some
       THEN [emit |-> <<join(<<norm.v>> \o Tail(fields))>>,
             st |-> Inc(st, "unmapped")]
       ELSE [emit |-> <<>>, st |-> Inc(st, "unmapped")]

\* lines 409-425: no path; only the normalizer is applied to the raw CHROM
Passthrough(fields, st) ==
  LET norm == apply_ignore_rules(fields[1], ignore_level)
  IN IF norm.some
       THEN [emit |-> <<join(<<norm.v>> \o Tail(fields))>>,
             st |-> Inc(st, "unmapped")]
       ELSE [emit |-> <<>>, st |-> Inc(st, "skipped")]

\* `wrote = true` left out where the normalizer rejects the path
Resolve_noWrote(fields, st0) ==
  LET st == Inc(st0, "total")
      nid == node_id_opt(fields)
      path == IF nid.some THEN chosen_path_opt(nid.v) ELSE None
  IN IF path.some
       THEN LET norm == apply_ignore_rules(path.v, ignore_level)
            IN IF norm.some THEN Replace(fields, st, nid.v, norm.v)
               ELSE Passthrough(fields, Inc(st, "skipped"))
       ELSE Passthrough(fields, st)

\* lines 312-407 for one record that passed the skip check
Resolve(fields, st0) ==
  LET st == Inc(st0, "total")
      nid == node_id_opt(fields)
      path == IF nid.some THEN chosen_path_opt(nid.v) ELSE None
  IN IF path.some
       THEN LET norm == apply_ignore_rules(path.v, ignore_level)
            IN IF norm.some THEN Replace(fields, st, nid.v, norm.v)
               ELSE [emit |-> <<>>, st |-> Inc(st, "skipped")]
       ELSE Passthrough(fields, st)

\* lines 284-426: the body of the loop for one line
ProcessOne(ln, st) ==
  IF starts_with(ln, <<"#">>) THEN [emit |-> <<ln>>, st |-> st]
  ELSE LET fields == split(ln)
       IN IF Len(fields) < 2 THEN [emit |-> <<>>, st |-> st]
          ELSE IF should_skip_chrom(fields[1], skip)
            THEN [emit |-> <<>>, st |-> Inc(st, "skipped")]
            ELSE Resolve(fields, st)

(***************************************************************************)
(* Inputs of the model                                                     *)
(***************************************************************************)
MaxLines == 2

N1 == U64Of(1)
N3 == U64Of(3)
N10 == U64Of(10)
N11 == U64Of(11)

PathDecorated == <<"a", ".", "c", "h", "r", "1">>
PathSuffixed == <<"c", "h", "r", "2", "_", "r">>
PathNoMarker == <<"c", "t", "g">>
PathPlain == <<"c", "h", "r", "7">>
PathNoToken == <<"c", "h", "r", "U", "n">>
PathSelf == <<"c", "h", "r", "1", "0">>

AlnInfo(p, d, q) == [path |-> p, distance |-> d, position |-> q]

EmptyMap == [n \in {} |-> None]

Aln1 ==
  (N10 :> AlnInfo(PathDecorated, -1, U64Of(5)))
  @@ (N11 :> AlnInfo(PathSuffixed, POS_SENTINEL, U64Of(7)))
  @@ (N1 :> AlnInfo(PathPlain, 0, U64Max))

Aln2 ==
  (N10 :> AlnInfo(PathSelf, POS_SENTINEL + 1, U64Of(5)))
  @@ (N11 :> AlnInfo(PathNoMarker, -3, U64Of(9)))
  @@ (N1 :> AlnInfo(PathDecorated, 2, U64Zero))

AlnStores == {EmptyMap, Aln1, Aln2}

\* what read_reference_tsv can leave in the three cells: a row without a
\* parsable start, a 4-column row (no sequence), or no reference at all
Ref0 == [path |-> None, start |-> None, seq |-> None]

Ref1 ==
  [path |-> Some((N10 :> PathSuffixed) @@ (N3 :> PathPlain)),
   start |-> Some((N10 :> U64Zero) @@ (N3 :> U64Of(4))),
   seq |-> Some(N10 :> <<"A", "C", "G">>)]

Ref2 ==
  [path |-> Some((N11 :> PathNoToken) @@ (N3 :> PathDecorated)),
   start |-> Some(N11 :> U64Of(2)),
   seq |-> Some(N3 :> <<"T", "T">>)]

RefStores == {Ref0, Ref1, Ref2}

Gfa1 ==
  [low |-> 10, high |-> 11,
   seq |-> (N10 :> <<"G", "G">>) @@ (N11 :> <<"C", "C">>)]

GfaChoices == {None, Some(Gfa1)}

SkipSets == {{}, {<<>>, <<"U", "n">>}}

\* the skip check comes before any use of the graph accessor, so the two
\* are varied one at a time
SkipAndGfa == {sg \in SkipSets \X GfaChoices : sg[1] = {} \/ sg[2] = None}

IgnoreLevels == 0..5

LineComment == <<"#", "c">>
LineShort == <<"x">>
LineNode10 == <<"1", "0", TAB, "3", TAB, ".", TAB, "A", TAB, "T">>
LineSuffix11 == <<"n", "1", "1", TAB, "4", TAB, "q">>
LinePosNode == <<"c", "h", "r", "X", TAB, "1", TAB, ".", TAB, "A">>
LineSkip == <<"U", "n", "1", "0", TAB, "6", TAB, ".", TAB, "A", TAB, "T">>
LineNoNode == <<"a", ".", "c", "h", "r", "x", TAB, "z", "z", TAB, ".", TAB, "A">>
LineTwoFields == <<"u", "n", "3", TAB, " ", "8">>

InputLines ==
  {LineComment, LineShort, LineNode10, LineSuffix11, LinePosNode, LineSkip,
   LineNoNode, LineTwoFields}

Files == UNION {[1..n -> InputLines] : n \in 0..MaxLines}

(***************************************************************************)
(* align_main: the node -> path map it builds before the streaming pass    *)
(***************************************************************************)
\* main.rs 207-234: the reference map first, alignment rows only for nodes
\* the reference does not have
MergeNodePaths(ref_map, aln_map) ==
  [n \in DOMAIN ref_map \cup DOMAIN aln_map |->
     IF n \in DOMAIN ref_map THEN ref_map[n] ELSE aln_map[n]]

PathsOf(store) == [n \in DOMAIN store |-> store[n].path]

\* main.rs 242-248 hands node2path to the rewriter in the place of the
\* node -> AlnInfo map; node2path carries paths only, so distance and
\* position of the entries are one of these pairs
AlnFill == {<<0, U64Zero>>, <<-1, U64Of(5)>>}

(***************************************************************************)
(* Specification of the rewriter                                           *)
(***************************************************************************)
\* no rewriter run under way
RewriterIdle ==
  /\ node2aln = EmptyMap
  /\ REF_NODE2PATH = None
  /\ REF_NODE2START = None
  /\ REF_NODE2SEQ = None
  /\ skip = {}
  /\ ignore_level = 0
  /\ gfa = None
  /\ aln_paths = EmptyMap
  /\ vcf = <<>>
  /\ cursor = 0
  /\ out = <<>>
  /\ stats = StreamStats
  /\ pass = 1
  /\ pc = "idle"

\* no normalizer call under way
NormIdle ==
  /\ nm_raw = <<>>
  /\ nm_level = 0
  /\ nm_io = None
  /\ nm_header = None
  /\ nm_extract = None

\* no header inference under way
InferIdle ==
  /\ pre_header = <<>>
  /\ spool = <<>>
  /\ blocks = <<>>
  /\ results = <<>>
  /\ merged = 0
  /\ inferred = None
  /\ decl_lines = None

\* no contig synthesis under way
ContigIdle ==
  /\ reference_tsv = <<>>
  /\ ignore = 0
  /\ ref_i = 0
  /\ contigs = EmptyMap
  /\ norm_map = EmptyMap
  /\ contig_lines = None

\* no output pipeline under way
PublishIdle ==
  /\ command = "none"
  /\ sort_enabled = FALSE
  /\ no_header = FALSE
  /\ disk = EmptyMap
  /\ step = "idle"
  /\ outcome = None

\* no extraction under way
ExtractIdle ==
  /\ graph = None
  /\ extract_level = 0
  /\ sink = <<>>
  /\ worker = <<>>
  /\ local_buf = <<>>
  /\ write_errors = 0
  /\ extract_step = "idle"
  /\ extract_ret = None

\* no node id derivation under way
NodeIdIdle ==
  /\ nid_chrom = <<>>
  /\ nid_pos = <<>>
  /\ nid_out = None

\* no alignment table load under way
AlnLoadIdle ==
  /\ aln_table = <<>>
  /\ aln_i = 0
  /\ idx_node = None
  /\ idx_path = None
  /\ idx_distance = None
  /\ idx_position = None
  /\ header_seen = FALSE
  /\ aln_store = EmptyMap
  /\ aln_ret = None

\* no reference table load under way
RefLoadIdle ==
  /\ ref_calls = <<>>
  /\ ref_call = 1
  /\ ref_line = 0
  /\ map_path = EmptyMap
  /\ map_start = EmptyMap
  /\ map_seq = EmptyMap
  /\ ref_returned = <<>>

\* no rename run under way
RenameIdle ==
  /\ rn_vcf = <<>>
  /\ rn_qtl = <<>>
  /\ map_mode = "none"
  /\ rn_run = 1
  /\ rn_step = "idle"
  /\ rn_i = 0
  /\ id_key_map = EmptyMap
  /\ pos_map = EmptyMap
  /\ pos_dupe = {}
  /\ map_tmp = None
  /\ map_final = None
  /\ renamed = <<>>
  /\ rebuilt = None

\* no sort under way
SortIdle ==
  /\ sort_in = <<>>
  /\ prefix_key = <<>>
  /\ reverse = FALSE
  /\ sort_step = "idle"
  /\ sort_i = 0
  /\ header_lines = <<>>
  /\ data_lines = <<>>
  /\ sorted_file = None

\* every component but the one named is at rest
RewriterAlone ==
  /\ NormIdle
  /\ InferIdle
  /\ ContigIdle
  /\ PublishIdle
  /\ ExtractIdle
  /\ NodeIdIdle
  /\ AlnLoadIdle
  /\ RefLoadIdle
  /\ RenameIdle
  /\ SortIdle

NormAlone ==
  /\ RewriterIdle
  /\ InferIdle
  /\ ContigIdle
  /\ PublishIdle
  /\ ExtractIdle
  /\ NodeIdIdle
  /\ AlnLoadIdle
  /\ RefLoadIdle
  /\ RenameIdle
  /\ SortIdle

InferAlone ==
  /\ RewriterIdle
  /\ NormIdle
  /\ ContigIdle
  /\ PublishIdle
  /\ ExtractIdle
  /\ NodeIdIdle
  /\ AlnLoadIdle
  /\ RefLoadIdle
  /\ RenameIdle
  /\ SortIdle

ContigAlone ==
  /\ RewriterIdle
  /\ NormIdle
  /\ InferIdle
  /\ PublishIdle
  /\ ExtractIdle
  /\ NodeIdIdle
  /\ AlnLoadIdle
  /\ RefLoadIdle
  /\ RenameIdle
  /\ SortIdle

PublishAlone ==
  /\ RewriterIdle
  /\ NormIdle
  /\ InferIdle
  /\ ContigIdle
  /\ ExtractIdle
  /\ NodeIdIdle
  /\ AlnLoadIdle
  /\ RefLoadIdle
  /\ RenameIdle
  /\ SortIdle

ExtractAlone ==
  /\ RewriterIdle
  /\ NormIdle
  /\ InferIdle
  /\ ContigIdle
  /\ PublishIdle
  /\ NodeIdIdle
  /\ AlnLoadIdle
  /\ RefLoadIdle
  /\ RenameIdle
  /\ SortIdle

NodeIdAlone ==
  /\ RewriterIdle
  /\ NormIdle
  /\ InferIdle
  /\ ContigIdle
  /\ PublishIdle
  /\ ExtractIdle
  /\ AlnLoadIdle
  /\ RefLoadIdle
  /\ RenameIdle
  /\ SortIdle

AlnLoadAlone ==
  /\ RewriterIdle
  /\ NormIdle
  /\ InferIdle
  /\ ContigIdle
  /\ PublishIdle
  /\ ExtractIdle
  /\ NodeIdIdle
  /\ RefLoadIdle
  /\ RenameIdle
  /\ SortIdle

RefLoadAlone ==
  /\ RewriterIdle
  /\ NormIdle
  /\ InferIdle
  /\ ContigIdle
  /\ PublishIdle
  /\ ExtractIdle
  /\ NodeIdIdle
  /\ AlnLoadIdle
  /\ RenameIdle
  /\ SortIdle

RenameAlone ==
  /\ RewriterIdle
  /\ NormIdle
  /\ InferIdle
  /\ ContigIdle
  /\ PublishIdle
  /\ ExtractIdle
  /\ NodeIdIdle
  /\ AlnLoadIdle
  /\ RefLoadIdle
  /\ SortIdle

SortAlone ==
  /\ RewriterIdle
  /\ NormIdle
  /\ InferIdle
  /\ ContigIdle
  /\ PublishIdle
  /\ ExtractIdle
  /\ NodeIdIdle
  /\ AlnLoadIdle
  /\ RefLoadIdle
  /\ RenameIdle

InitRun ==
  /\ vcf \in Files
  /\ cursor = 0
  /\ out = <<>>
  /\ stats = StreamStats
  /\ pass = 1
  /\ pc = "run"

Init ==
  /\ node2aln \in AlnStores
  /\ aln_paths = PathsOf(node2aln)
  /\ \E r \in RefStores :
       /\ REF_NODE2PATH = r.path
       /\ REF_NODE2START = r.start
       /\ REF_NODE2SEQ = r.seq
  /\ \E sg \in SkipAndGfa : skip = sg[1] /\ gfa = sg[2]
  /\ ignore_level \in IgnoreLevels
  /\ InitRun
  /\ RewriterAlone

\* the state align_main is in when it calls the rewriter
InitAlign ==
  /\ \E a \in AlnStores, r \in RefStores, fill \in AlnFill :
       LET node2path ==
             MergeNodePaths(IF r.path.some THEN r.path.v ELSE EmptyMap, PathsOf(a))
       IN /\ aln_paths = PathsOf(a)
          /\ REF_NODE2PATH = r.path
          /\ REF_NODE2START = r.start
          /\ REF_NODE2SEQ = r.seq
          /\ node2aln = [n \in DOMAIN node2path |->
                           AlnInfo(node2path[n], fill[1], fill[2])]
  /\ skip \in SkipSets
  /\ ignore_level \in IgnoreLevels
  /\ gfa = None
  /\ InitRun
  /\ RewriterAlone

\* one iteration of `for line in reader.lines()`
ProcessLine ==
  /\ pc = "run"
  /\ cursor < Len(vcf)
  /\ LET r == ProcessOne(vcf[cursor + 1], stats)
     IN /\ out' = out \o r.emit
        /\ stats' = r.st
  /\ cursor' = cursor + 1
  /\ UNCHANGED <<config, vcf, pass, pc, notRewriter>>

\* end of input: flush and Ok(stats)
Finish ==
  /\ pc = "run"
  /\ cursor = Len(vcf)
  /\ pc' = "done"
  /\ UNCHANGED <<config, vcf, cursor, out, stats, pass, notRewriter>>

\* the rewriter is run again, on the file it has just written
Rerun ==
  /\ pc = "done"
  /\ pass = 1
  /\ vcf' = out
  /\ cursor' = 0
  /\ out' = <<>>
  /\ stats' = StreamStats
  /\ pass' = 2
  /\ pc' = "run"
  /\ UNCHANGED <<config, notRewriter>>

Next == ProcessLine \/ Finish \/ Rerun

Spec == Init /\ [][Next]_vars

SpecAlign == InitAlign /\ [][Next]_vars

(***************************************************************************)
(* Vocabulary of the properties: the step that consumes one line           *)
(***************************************************************************)
Consumed == cursor' = cursor + 1

Cur == vcf[cursor + 1]

InF == split(Cur)

IsDataLine == ~starts_with(Cur, <<"#">>) /\ Len(InF) >= 2

Delta(f) == stats'[f] - stats[f]

WroteOne == Len(out') = Len(out) + 1 /\ SubSeq(out', 1, Len(out)) = out

OutF == split(out'[Len(out')])

SkipHit == \E k \in skip : Len(k) > 0 /\ contains(InF[1], k)

Nid == node_id_opt(InF)

HasAln == Nid.some /\ Nid.v \in DOMAIN node2aln

HasRefPath == Nid.some /\ REF_NODE2PATH.some /\ Nid.v \in DOMAIN REF_NODE2PATH.v

HasRefStart == Nid.some /\ REF_NODE2START.some /\ Nid.v \in DOMAIN REF_NODE2START.v

HasRefSeq == Nid.some /\ REF_NODE2SEQ.some /\ Nid.v \in DOMAIN REF_NODE2SEQ.v

RECURSIVE CommentsIn(_, _)
CommentsIn(file, n) ==
  IF n = 0 THEN 0
  ELSE CommentsIn(file, n - 1) + (IF starts_with(file[n], <<"#">>) THEN 1 ELSE 0)

\* some line of the output has the given fields
OutHas(fs) == \E i \in 1..Len(out) : split(out[i]) = fs

(***************************************************************************)
(* C1                                                                      *)
(***************************************************************************)
\* C1: when the rewriter has returned, total = replaced + unmapped + skipped.
C1_Reconcile ==
  pc = "done" => stats.total = stats.replaced + stats.unmapped + stats.skipped

(***************************************************************************)
(* C2                                                                      *)
(***************************************************************************)
C2_Step ==
  (Consumed /\ IsDataLine) =>
    /\ Delta("replaced") \in {0, 1}
    /\ Delta("unmapped") \in {0, 1}
    /\ Delta("skipped") \in {0, 1}
    /\ Delta("replaced") + Delta("unmapped") + Delta("skipped") = 1
    /\ (Delta("skipped") = 1 => out' = out)
    /\ (Delta("skipped") = 0 =>
          /\ WroteOne
          /\ \A i \in 1..Len(out'[Len(out')]) :
               out'[Len(out')][i] \notin {"\n", "\r"})

C2_Count ==
  Len(out) = CommentsIn(vcf, cursor) + stats.replaced + stats.unmapped

\* C2: every data line ends in exactly one of replaced, unmapped, skipped and
\* adds one to that counter only; it is written once, as one line, when
\* replaced or unmapped and not at all when skipped, so the output holds
\* replaced + unmapped lines besides the comment lines passed through.
C2_ExactlyOneOutcome == [][C2_Step]_vars /\ []C2_Count

C2_Witness ==
  /\ pc = "done"
  /\ pass = 1
  /\ stats.replaced = 1
  /\ stats.skipped = 1
  /\ Len(out) = 1

(***************************************************************************)
(* C3                                                                      *)
(***************************************************************************)
\* C3: a record whose node id has an alignment record gets its CHROM from
\* the alignment path, also when the reference has a path for the node; the
\* reference path is used only without an alignment record.
C3_AlignmentPathFirst ==
  [][(Consumed /\ IsDataLine /\ Delta("replaced") = 1) =>
       LET wanted == IF Nid.v \in DOMAIN aln_paths
                       THEN aln_paths[Nid.v]
                       ELSE REF_NODE2PATH.v[Nid.v]
       IN Some(OutF[1]) = apply_ignore_rules(wanted, ignore_level)]_vars

(***************************************************************************)
(* C4                                                                      *)
(***************************************************************************)
\* a + b without a width: five limbs
WideAdd(a, b) ==
  LET t1 == a[1] + b[1]
      t2 == a[2] + b[2] + (t1 \div LimbBase)
      t3 == a[3] + b[3] + (t2 \div LimbBase)
      t4 == a[4] + b[4] + (t3 \div LimbBase)
  IN <<t1 % LimbBase, t2 % LimbBase, t3 % LimbBase, t4 % LimbBase,
       t4 \div LimbBase>>

Widen(v) == <<v[1], v[2], v[3], v[4], 0>>

MaxOf(a, b) == IF a >= b THEN a ELSE b

C4_Case == Consumed /\ IsDataLine /\ Delta("replaced") = 1 /\ HasAln

\* C4 as claimed: the new POS is p when d > 1,000,000,000 and
\* p + max(d+1, 0) otherwise.
C4_PosFormula ==
  [][C4_Case =>
       LET a == node2aln[Nid.v]
           v == parse_u64(OutF[2])
       IN /\ v.some
          /\ IF a.distance > 1000000000
               THEN v.v = a.position
               ELSE Widen(v.v) =
                      WideAdd(a.position, U64Of(MaxOf(a.distance + 1, 0)))]_vars

\* C4 amended: the new POS is p when d > 1,000,000,000 and otherwise
\* p + max(d+1, 0) capped at 2^64 - 1.
C4_PosFormulaSaturating ==
  [][C4_Case =>
       LET a == node2aln[Nid.v]
           v == parse_u64(OutF[2])
           sum == WideAdd(a.position, U64Of(MaxOf(a.distance + 1, 0)))
       IN /\ v.some
          /\ IF a.distance > 1000000000
               THEN v.v = a.position
               ELSE IF sum[5] = 0 THEN Widen(v.v) = sum ELSE v.v = U64Max]_vars

\* d = 1,000,000,000 and p = 7 gave 1000000008; d = -1 and p = 5 gave 5
C4_Witness ==
  /\ node2aln = Aln1
  /\ OutHas(<<PathSuffixed,
              <<"1", "0", "0", "0", "0", "0", "0", "0", "0", "8">>,
              <<"4">>>>)
  /\ \E i \in 1..Len(out) :
       LET f == split(out[i])
       IN Len(f) >= 3 /\ f[2] = <<"5">> /\ f[3] = <<"3">>

(***************************************************************************)
(* C5                                                                      *)
(***************************************************************************)
GfaCovers ==
  /\ gfa.some
  /\ Nid.some
  /\ Nid.v \in DOMAIN gfa.v.seq

\* C5: for a replaced record with a REF column, REF is the graph sequence
\* when a graph accessor is supplied and covers the node, the reference
\* sequence when no accessor is supplied; with neither, REF is unchanged and
\* missing_seq grows by one, and it does not grow when REF was set.
C5_RefSource ==
  [][(Consumed /\ IsDataLine /\ Delta("replaced") = 1 /\ Len(InF) >= 4) =>
       /\ GfaCovers =>
            OutF[4] = gfa.v.seq[Nid.v] /\ Delta("missing_seq") = 0
       /\ (~gfa.some /\ HasRefSeq) =>
            OutF[4] = REF_NODE2SEQ.v[Nid.v] /\ Delta("missing_seq") = 0
       /\ (~GfaCovers /\ ~HasRefSeq) =>
            OutF[4] = InF[4] /\ Delta("missing_seq") = 1]_vars

(***************************************************************************)
(* C6                                                                      *)
(***************************************************************************)
C6_Step ==
  (Consumed /\ IsDataLine /\ Delta("replaced") = 1 /\ ~HasAln) =>
    IF HasRefStart
      THEN /\ parse_u64(OutF[2]) = Some(REF_NODE2START.v[Nid.v])
           /\ Delta("missing_start") = 0
           /\ Delta("used_ref_map") = 1
      ELSE /\ OutF[2] = InF[2]
           /\ Delta("missing_start") = 1
           /\ Delta("used_ref_map") = 0

C6_Sum ==
  stats.used_aln_map + stats.used_ref_map + stats.missing_start = stats.replaced

\* C6: a replaced record without an alignment record takes the reference
\* start as POS; without a reference start POS is unchanged and
\* missing_start grows by one; always
\* used_aln_map + used_ref_map + missing_start = replaced.
C6_PosFallback == [][C6_Step]_vars /\ []C6_Sum

\* one record took the reference start 2, another kept its POS " 8"
C6_Witness ==
  /\ pc = "done"
  /\ pass = 1
  /\ stats.used_ref_map = 1
  /\ stats.missing_start = 1
  /\ \E i \in 1..Len(out) :
       LET f == split(out[i]) IN Len(f) >= 2 /\ f[2] = <<"2">>
  /\ \E i \in 1..Len(out) :
       LET f == split(out[i]) IN Len(f) >= 2 /\ f[2] = <<" ", "8">>

(***************************************************************************)
(* C7                                                                      *)
(***************************************************************************)
\* C7: for a replaced record the output ID is the input POS, the fields
\* after REF are those of the input at the same places, and the number of
\* fields is unchanged.
C7_IdAndFrame ==
  [][(Consumed /\ IsDataLine /\ Delta("replaced") = 1) =>
       /\ WroteOne
       /\ Len(OutF) = Len(InF)
       /\ (Len(InF) >= 3 => OutF[3] = InF[2])
       /\ \A i \in 5..Len(InF) : OutF[i] = InF[i]]_vars

\* "10 3 . A T" was replaced: ID is "3", ALT is still "T"
C7_Witness ==
  /\ pass = 1
  /\ stats.replaced = 1
  /\ \E i \in 1..Len(out) :
       LET f == split(out[i])
       IN Len(f) = 5 /\ f[3] = <<"3">> /\ f[5] = <<"T">> /\ f[1] # <<"1", "0">>

(***************************************************************************)
(* C8                                                                      *)
(***************************************************************************)
OtherCountersUnchanged ==
  \A f \in DOMAIN stats : f # "skipped" => Delta(f) = 0

\* C8: a record whose raw CHROM contains a non-empty skip substring is not
\* written and counts as skipped, whatever the stores and the level; a
\* record whose CHROM contains none goes on to the resolver.
C8_SkipCheck ==
  [][(Consumed /\ IsDataLine) =>
       IF SkipHit
         THEN out' = out /\ Delta("skipped") = 1 /\ OtherCountersUnchanged
         ELSE Delta("total") = 1]_vars

\* "Un10 ..." was dropped by the skip set although node 10 has an alignment
\* record, and "un3 ..." (lower case) was not
C8_Witness ==
  /\ pc = "done"
  /\ pass = 1
  /\ skip # {}
  /\ node2aln = Aln1
  /\ vcf = <<LineSkip, LineTwoFields>>
  /\ stats.skipped = 1
  /\ stats.total = 1

(***************************************************************************)
(* C9                                                                      *)
(***************************************************************************)
HasPath == HasAln \/ HasRefPath

PathOf == IF HasAln THEN node2aln[Nid.v].path ELSE REF_NODE2PATH.v[Nid.v]

\* C9: without a path the record is written with CHROM normalized from the
\* raw CHROM, the other fields untouched, and counts as unmapped; if the
\* normalizer rejects the raw CHROM it is not written and not unmapped; a
\* path the normalizer rejects makes the record skipped, never unmapped.
C9_Unmapped ==
  [][(Consumed /\ IsDataLine /\ ~SkipHit) =>
       IF ~HasPath
         THEN LET norm == apply_ignore_rules(InF[1], ignore_level)
              IN IF norm.some
                   THEN /\ WroteOne
                        /\ OutF = <<norm.v>> \o Tail(InF)
                        /\ Delta("unmapped") = 1
                        /\ Delta("skipped") = 0
                   ELSE /\ out' = out
                        /\ Delta("unmapped") = 0
                        /\ Delta("skipped") = 1
         ELSE ~apply_ignore_rules(PathOf, ignore_level).some =>
                /\ out' = out
                /\ Delta("skipped") = 1
                /\ Delta("unmapped") = 0]_vars

\* level 4: "a.chrx zz . A" had no node id and was written with CHROM
\* "chrX", then a record with the path "ctg" was dropped as skipped
C9_Witness ==
  /\ pc = "done"
  /\ pass = 1
  /\ ignore_level = 4
  /\ node2aln = Aln2
  /\ vcf = <<LineNoNode, LineSuffix11>>
  /\ out = <<join(<<<<"c", "h", "r", "X">>, <<"z", "z">>, <<".">>, <<"A">>>>)>>
  /\ stats.unmapped = 1
  /\ stats.skipped = 1

(***************************************************************************)
(* C10                                                                     *)
(***************************************************************************)
\* C10: a second run over the first run's output leaves CHROM, POS, ID and
\* REF of every record whose node id is still resolvable unchanged.
C10_Idempotent ==
  [][(pass = 2 /\ Consumed /\ IsDataLine /\ ~SkipHit /\ HasPath
        /\ Delta("replaced") = 1) =>
       \A i \in 1..4 : i <= Len(InF) => OutF[i] = InF[i]]_vars

(***************************************************************************)
(* C11                                                                     *)
(***************************************************************************)
\* C11: every non-comment input line the rewriter consumes changes at least
\* one counter of the returned statistics, a line with fewer than two
\* tab-separated fields (an empty line too) included.
C11_MalformedCounted ==
  [][(Consumed /\ ~starts_with(Cur, <<"#">>)) =>
       \E f \in DOMAIN stats : Delta(f) # 0]_vars

(***************************************************************************)
(* The Normalizer of header.rs and of extract.rs                           *)
(***************************************************************************)
is_ascii_alphanumeric(c) ==
  \/ is_ascii_digit(c)
  \/ \E i \in 1..26 : UpperLetters[i] = c \/ LowerLetters[i] = c

\* str::find(&str): 0-based index of the first match
find(s, k) ==
  LET hits == {i \in 0..(Len(s) - Len(k)) : SubSeq(s, i + 1, i + Len(k)) = k}
  IN IF hits = {} THEN None
     ELSE Some(CHOOSE i \in hits : \A j \in hits : i <= j)

\* str::parse::<u8>()
parse_u8(s) ==
  LET r == parse_u64(s)
  IN IF r.some /\ r.v[2] = 0 /\ r.v[3] = 0 /\ r.v[4] = 0 /\ r.v[1] <= 255
       THEN r ELSE None

to_ascii_uppercase(s) == [i \in 1..Len(s) |-> char_to_ascii_uppercase(s[i])]

\* the token loop of header::extract_chr_token: the alphanumeric run
RECURSIVE AlnumRun(_)
AlnumRun(after) ==
  IF Len(after) = 0 THEN <<>>
  ELSE IF is_ascii_alphanumeric(after[1])
    THEN <<after[1]>> \o AlnumRun(Tail(after))
    ELSE <<>>

header_extract_chr_token(raw) ==
  LET idx == find(to_ascii_lowercase(raw), StrChr)
  IN IF idx.some
       THEN LET after == SubSeq(raw, idx.v + 4, Len(raw))
                token == AlnumRun(after)
                has_suffix == Len(after) > Len(token)
            IN IF Len(token) = 0
                 THEN [tok |-> None, has_suffix |-> has_suffix, found_chr |-> TRUE]
                 ELSE [tok |-> Some(IF AllDigits(token) THEN token
                                    ELSE to_ascii_uppercase(token)),
                       has_suffix |-> has_suffix, found_chr |-> TRUE]
       ELSE [tok |-> None, has_suffix |-> FALSE, found_chr |-> FALSE]

header_is_std_human_chr_token(tok) ==
  LET t == to_ascii_uppercase(tok)
  IN IF t \in {<<"X">>, <<"Y">>, <<"M">>} THEN TRUE
     ELSE LET n == parse_u8(t)
          IN n.some /\ n.v[1] >= 1 /\ n.v[1] <= 22

header_apply_ignore_rules(raw, level) ==
  LET e == header_extract_chr_token(raw)
  IN CASE level = 0 -> Some(raw)
       [] level = 1 ->
            IF contains(to_ascii_lowercase(raw), StrChr) THEN Some(raw) ELSE None
       [] level = 2 ->
            IF ~e.found_chr THEN None
            ELSE IF ~e.tok.some THEN None
            ELSE IF e.tok.v \in {<<"X">>, <<"Y">>, <<"M">>} \/ AllDigits(e.tok.v)
              THEN Some(raw) ELSE None
       [] level = 3 ->
            IF ~e.found_chr THEN None
            ELSE IF ~e.tok.some THEN None
            ELSE IF e.has_suffix THEN None
            ELSE Some(raw)
       [] level = 4 ->
            IF ~e.found_chr THEN None
            ELSE IF ~e.tok.some THEN None
            ELSE IF ~header_is_std_human_chr_token(e.tok.v) THEN None
            ELSE Some(StrChr \o to_ascii_uppercase(e.tok.v))
       [] level = 5 ->
            IF ~e.found_chr THEN None
            ELSE IF ~e.tok.some THEN None
            ELSE IF ~header_is_std_human_chr_token(e.tok.v) THEN None
            ELSE Some(to_ascii_uppercase(e.tok.v))
       [] OTHER -> Some(raw)

\* the digit run of extract::extract_chr_token
RECURSIVE DigitRun(_)
DigitRun(after) ==
  IF Len(after) = 0 THEN <<>>
  ELSE IF is_ascii_digit(after[1])
    THEN <<after[1]>> \o DigitRun(Tail(after))
    ELSE <<>>

extract_extract_chr_token(raw) ==
  LET idx == find(to_ascii_lowercase(raw), StrChr)
  IN IF idx.some
       THEN LET after == SubSeq(raw, idx.v + 4, Len(raw))
            IN IF Len(after) = 0
                 THEN [tok |-> None, has_suffix |-> FALSE, found_chr |-> TRUE]
               ELSE IF is_ascii_digit(after[1])
                 THEN LET token == DigitRun(after)
                      IN [tok |-> Some(token),
                          has_suffix |-> Len(after) > Len(token),
                          found_chr |-> TRUE]
               ELSE LET up == char_to_ascii_uppercase(after[1])
                    IN IF up = "X" \/ up = "Y" \/ up = "M"
                         THEN [tok |-> Some(<<up>>),
                               has_suffix |-> Len(after) > 1,
                               found_chr |-> TRUE]
                         ELSE [tok |-> None, has_suffix |-> FALSE,
                               found_chr |-> TRUE]
       ELSE [tok |-> None, has_suffix |-> FALSE, found_chr |-> FALSE]

extract_is_std_human_chr_token(tok) ==
  LET t == to_ascii_uppercase(tok)
  IN IF t \in {<<"X">>, <<"Y">>, <<"M">>} THEN TRUE
     ELSE /\ AllDigits(t)
          /\ LET n == parse_u32(t)
             IN n.some /\ n.v[2] = 0 /\ n.v[1] >= 1 /\ n.v[1] <= 22

extract_apply_ignore_rules(raw, level) ==
  LET e == extract_extract_chr_token(raw)
  IN CASE level = 0 -> Some(raw)
       [] level = 1 ->
            IF contains(to_ascii_lowercase(raw), StrChr) THEN Some(raw) ELSE None
       [] level = 2 ->
            IF ~e.found_chr THEN None
            ELSE IF ~e.tok.some THEN None
            ELSE IF e.tok.v \in {<<"X">>, <<"Y">>, <<"M">>} \/ AllDigits(e.tok.v)
              THEN Some(raw) ELSE None
       [] level = 3 ->
            IF ~e.found_chr THEN None
            ELSE IF ~e.tok.some THEN None
            ELSE IF e.has_suffix THEN None
            ELSE Some(raw)
       [] level = 4 ->
            IF ~e.found_chr THEN None
            ELSE IF ~e.tok.some THEN None
            ELSE IF ~extract_is_std_human_chr_token(e.tok.v) THEN None
            ELSE Some(StrChr \o to_ascii_uppercase(e.tok.v))
       [] level = 5 ->
            IF ~e.found_chr THEN None
            ELSE IF ~e.tok.some THEN None
            ELSE IF ~extract_is_std_human_chr_token(e.tok.v) THEN None
            ELSE Some(to_ascii_uppercase(e.tok.v))
       [] OTHER -> Some(raw)

(***************************************************************************)
(* Specification of the Normalizer calls                                   *)
(***************************************************************************)
NameDecorated == <<"G", "R", "C", "h", "3", "8", ".", "c", "h", "r", "1", "2", "_", "r", "a", "n", "d", "o", "m">>
NameChr1 == <<"c", "h", "r", "1">>
NameLowerX == <<"c", "h", "r", "x">>
NameUpper22 == <<"C", "H", "R", "2", "2">>
NameChr23 == <<"c", "h", "r", "2", "3">>
NameChr0 == <<"c", "h", "r", "0">>
NameLeadingZero == <<"c", "h", "r", "0", "1", "2">>
NameChr300 == <<"c", "h", "r", "3", "0", "0">>
NameUn == <<"c", "h", "r", "U", "n">>
NameCtg == <<"c", "t", "g">>
NameEmpty == <<>>
NameBareMarker == <<"c", "h", "r">>
NameTwoMarkers == <<"c", "h", "r", "1", ".", "c", "h", "r", "2">>
NameMixedRun == <<"c", "h", "r", "1", "2", "M">>
NameLetterTail == <<"c", "h", "r", "1", "a">>
NameYAlt == <<"c", "h", "r", "Y", "_", "a", "l", "t">>
NameMT == <<"c", "h", "r", "M", "T">>
NameLetterRun == <<"c", "h", "r", "X", "Y">>

Names ==
  {NameDecorated, NameChr1, NameLowerX, NameUpper22,
   NameChr23, NameChr0, NameLeadingZero, NameChr300,
   NameUn, NameCtg, NameEmpty, NameBareMarker,
   NameTwoMarkers, NameMixedRun, NameLetterTail, NameYAlt,
   NameMT, NameLetterRun}

\* the levels a u8 can hold: 0..5, two above, and the largest
Levels == 0..7 \cup {255}

InitNorm ==
  /\ nm_raw \in Names
  /\ nm_level \in Levels
  /\ nm_io = None
  /\ nm_header = None
  /\ nm_extract = None
  /\ NormAlone

\* the rewriter normalizes the name
CallIoStream ==
  /\ nm_io = None
  /\ nm_io' = Some(apply_ignore_rules(nm_raw, nm_level))
  /\ UNCHANGED <<nm_raw, nm_level, nm_header, nm_extract, notNorm>>

\* header_run normalizes the name as a contig id
CallHeader ==
  /\ nm_header = None
  /\ nm_header' = Some(header_apply_ignore_rules(nm_raw, nm_level))
  /\ UNCHANGED <<nm_raw, nm_level, nm_io, nm_extract, notNorm>>

\* extract_main normalizes the name as a path name
CallExtract ==
  /\ nm_extract = None
  /\ nm_extract' = Some(extract_apply_ignore_rules(nm_raw, nm_level))
  /\ UNCHANGED <<nm_raw, nm_level, nm_io, nm_header, notNorm>>

NextNorm == CallIoStream \/ CallHeader \/ CallExtract

SpecNorm == InitNorm /\ [][NextNorm]_vars

(***************************************************************************)
(* C12                                                                     *)
(***************************************************************************)
\* "chr" in any case starts at place i of s
MarkerAt(s, i) ==
  i + 2 <= Len(s) /\ to_ascii_lowercase(SubSeq(s, i, i + 2)) = StrChr

HasMarker(s) == \E i \in 1..Len(s) : MarkerAt(s, i)

LastMarker(s) ==
  CHOOSE i \in 1..Len(s) :
    MarkerAt(s, i) /\ \A j \in (i + 1)..Len(s) : ~MarkerAt(s, j)

TokenChar(c) == is_ascii_digit(c) \/ c \in {"X", "Y", "M", "x", "y", "m"}

\* the longest run of token characters right after the last marker, upper case
Captured(s) ==
  LET a == LastMarker(s) + 3
      n == CHOOSE m \in 0..(Len(s) - a + 1) :
             /\ \A k \in 0..(m - 1) : TokenChar(s[a + k])
             /\ (a + m > Len(s) \/ ~TokenChar(s[a + m]))
  IN to_ascii_uppercase(SubSeq(s, a, a + n - 1))

RECURSIVE StripZeros(_)
StripZeros(t) ==
  IF Len(t) > 0 /\ t[1] = "0" THEN StripZeros(Tail(t)) ELSE t

\* 1..22, X, Y, M
StdCanon ==
  {<<"1">>, <<"2">>, <<"3">>, <<"4">>, <<"5">>,
   <<"6">>, <<"7">>, <<"8">>, <<"9">>, <<"1", "0">>,
   <<"1", "1">>, <<"1", "2">>, <<"1", "3">>, <<"1", "4">>, <<"1", "5">>,
   <<"1", "6">>, <<"1", "7">>, <<"1", "8">>, <<"1", "9">>, <<"2", "0">>,
   <<"2", "1">>, <<"2", "2">>, <<"X">>, <<"Y">>, <<"M">>}

C13_SameEverywhere ==
  (nm_level \in 0..5 /\ nm_io.some /\ nm_header.some /\ nm_extract.some) =>
    nm_io = nm_header /\ nm_header = nm_extract

(***************************************************************************)
(* C14                                                                     *)
(***************************************************************************)
\* C14: at level 0 and at every level above 5 the Normalizer returns the name
\* it was given, whatever the name.
C14_LevelZero ==
  (nm_io.some /\ nm_level \notin 1..5) => nm_io.v = Some(nm_raw)

\* "ctg", which every level 1..5 rejects, came back unchanged at level 255
C14_Witness ==
  /\ nm_level = 255
  /\ nm_raw = NameCtg
  /\ nm_io = Some(Some(NameCtg))

(***************************************************************************)
(* Header inference (header.rs): strings                                   *)
(***************************************************************************)
\* str::split(char).collect(): always at least one piece
RECURSIVE split_on(_, _)
split_on(s, sep) ==
  LET hits == {i \in 1..Len(s) : s[i] = sep}
  IN IF hits = {} THEN <<s>>
     ELSE LET i == CHOOSE t \in hits : \A u \in hits : t <= u
          IN <<SubSeq(s, 1, i - 1)>> \o split_on(SubSeq(s, i + 1, Len(s)), sep)

\* str::split_once(char): the text before and after the first separator
split_once(s, sep) ==
  LET hits == {i \in 1..Len(s) : s[i] = sep}
  IN IF hits = {} THEN None
     ELSE LET i == CHOOSE t \in hits : \A u \in hits : t <= u
          IN Some(<<SubSeq(s, 1, i - 1), SubSeq(s, i + 1, Len(s))>>)

\* .filter(|x| !x.is_empty()).count()
RECURSIVE count_non_empty(_)
count_non_empty(pieces) ==
  IF Len(pieces) = 0 THEN 0
  ELSE (IF Len(pieces[1]) > 0 THEN 1 ELSE 0) + count_non_empty(Tail(pieces))

\* the bytes of the texts handled here, in ascending order
AsciiOrder ==
  <<TAB, " ", "!", "#", "$", "%", "&", "'", "(", ")", "*",
    "+", ",", "-", ".", "/", "0", "1", "2", "3", "4", "5", "6",
    "7", "8", "9", ":", ";", "<", "=", ">", "?", "@", "A", "B",
    "C", "D", "E", "F", "G", "H", "I", "J", "K", "L", "M", "N",
    "O", "P", "Q", "R", "S", "T", "U", "V", "W", "X", "Y", "Z",
    "[", "]", "^", "_", "a", "b", "c", "d", "e", "f",
    "g", "h", "i", "j", "k", "l", "m", "n", "o", "p", "q", "r",
    "s", "t", "u", "v", "w", "x", "y", "z", "{", "|", "}", "~">>

byte_rank(c) == CHOOSE i \in 1..Len(AsciiOrder) : AsciiOrder[i] = c

\* Ord for String: byte-wise, a proper prefix first
RECURSIVE str_lt(_, _)
str_lt(a, b) ==
  IF Len(b) = 0 THEN FALSE
  ELSE IF Len(a) = 0 THEN TRUE
  ELSE IF a[1] = b[1] THEN str_lt(Tail(a), Tail(b))
  ELSE byte_rank(a[1]) < byte_rank(b[1])

\* the keys of a BTreeMap in iteration order
RECURSIVE btree_keys(_)
btree_keys(keys) ==
  IF keys = {} THEN <<>>
  ELSE LET k == CHOOSE x \in keys : \A y \in keys : y = x \/ str_lt(x, y)
       IN <<k>> \o btree_keys(keys \ {k})

(***************************************************************************)
(* Header inference: value tokens                                          *)
(***************************************************************************)
\* 2^63 as a u64
I64MinMagnitude == <<0, 0, 0, LimbBase \div 2>>

\* str::parse::<i64>().is_ok(): an optional sign, digits, within the range
parse_i64_ok(s) ==
  LET neg == Len(s) > 0 /\ s[1] = "-"
      digits == IF Len(s) > 0 /\ s[1] \in {"+", "-"} THEN Tail(s) ELSE s
      mag == IF Len(digits) = 0 THEN None ELSE ParseDigits(digits, U64Zero)
  IN /\ mag.some
     /\ \/ U64Lt(mag.v, I64MinMagnitude)
        \/ neg /\ mag.v = I64MinMagnitude

\* the decimal grammar of str::parse::<f64>(): digits [. digits] [e [sign] digits]
\* with a digit on one side of the point at least
is_decimal_number(s) ==
  LET int_part == DigitRun(s)
      rest1 == SubSeq(s, Len(int_part) + 1, Len(s))
      has_point == Len(rest1) > 0 /\ rest1[1] = "."
      frac_part == IF has_point THEN DigitRun(Tail(rest1)) ELSE <<>>
      rest2 == IF has_point
                 THEN SubSeq(rest1, Len(frac_part) + 2, Len(rest1))
                 ELSE rest1
  IN /\ Len(int_part) + Len(frac_part) > 0
     /\ \/ Len(rest2) = 0
        \/ /\ rest2[1] \in {"e", "E"}
           /\ LET e1 == Tail(rest2)
                  e2 == IF Len(e1) > 0 /\ e1[1] \in {"+", "-"} THEN Tail(e1) ELSE e1
              IN Len(e2) > 0 /\ AllDigits(e2)

\* str::parse::<f64>().is_ok()
parse_f64_ok(s) ==
  LET unsigned == IF Len(s) > 0 /\ s[1] \in {"+", "-"} THEN Tail(s) ELSE s
  IN \/ is_decimal_number(unsigned)
     \/ to_ascii_lowercase(unsigned) \in
          {<<"n", "a", "n">>, <<"i", "n", "f">>,
           <<"i", "n", "f", "i", "n", "i", "t", "y">>}

classify_value_token(tok) ==
  IF Len(tok) = 0 THEN "Stringy"
  ELSE IF parse_i64_ok(tok) THEN "Int"
  ELSE IF parse_f64_ok(tok) THEN "Float"
  ELSE "Stringy"

(***************************************************************************)
(* Header inference: per-block statistics and their merge                  *)
(***************************************************************************)
\* KeyStats::default()
KeyStatsDefault ==
  [seen_as_flag |-> FALSE, all_int |-> TRUE, any_float |-> FALSE,
   all_singleton |-> TRUE, matches_a |-> 0, matches_r |-> 0, samples |-> 0]

\* BTreeMap::insert
Put(m, k, v) == [x \in DOMAIN m \cup {k} |-> IF x = k THEN v ELSE m[x]]

\* BTreeMap::entry(k).or_default()
entry_or_default(m, k) == IF k \in DOMAIN m THEN m[k] ELSE KeyStatsDefault

\* one item of the INFO column
scan_info_item_flagUnseen(info_map, item, alt_ct) ==
  IF Len(item) = 0 THEN info_map
  ELSE LET kv == split_once(item, "=")
       IN IF kv.some
            THEN LET k == kv.v[1]
                     v == kv.v[2]
                     ks == [entry_or_default(info_map, k) EXCEPT !.samples = @ + 1]
                     vals == split_on(v, ",")
                     kinds == {classify_value_token(vals[i]) : i \in 1..Len(vals)}
                 IN IF Len(v) = 0 THEN Put(info_map, k, ks)
                    ELSE Put(info_map, k,
                           [ks EXCEPT
                              !.all_singleton = @ /\ Len(vals) = 1,
                              !.matches_a = @ + (IF Len(vals) = alt_ct THEN 1 ELSE 0),
                              !.matches_r = @ + (IF Len(vals) = alt_ct + 1 THEN 1 ELSE 0),
                              !.any_float = @ \/ "Float" \in kinds,
                              !.all_int = @ /\ kinds = {"Int"}])
            ELSE Put(info_map, item,
                     [entry_or_default(info_map, item) EXCEPT
                        !.samples = @ + 1])

scan_info_item(info_map, item, alt_ct) ==
  IF Len(item) = 0 THEN info_map
  ELSE LET kv == split_once(item, "=")
       IN IF kv.some
            THEN LET k == kv.v[1]
                     v == kv.v[2]
                     ks == [entry_or_default(info_map, k) EXCEPT !.samples = @ + 1]
                     vals == split_on(v, ",")
                     kinds == {classify_value_token(vals[i]) : i \in 1..Len(vals)}
                 IN IF Len(v) = 0 THEN Put(info_map, k, ks)
                    ELSE Put(info_map, k,
                           [ks EXCEPT
                              !.all_singleton = @ /\ Len(vals) = 1,
                              !.matches_a = @ + (IF Len(vals) = alt_ct THEN 1 ELSE 0),
                              !.matches_r = @ + (IF Len(vals) = alt_ct + 1 THEN 1 ELSE 0),
                              !.any_float = @ \/ "Float" \in kinds,
                              !.all_int = @ /\ kinds = {"Int"}])
            ELSE Put(info_map, item,
                     [entry_or_default(info_map, item) EXCEPT
                        !.samples = @ + 1, !.seen_as_flag = TRUE])

RECURSIVE scan_info_items(_, _, _)
scan_info_items(info_map, items, alt_ct) ==
  IF Len(items) = 0 THEN info_map
  ELSE scan_info_items(scan_info_item(info_map, items[1], alt_ct),
                       Tail(items), alt_ct)

\* one key of the FORMAT column against the first sample column
scan_format_key(fmt_map, key, fmt, sample) ==
  IF Len(key) = 0 THEN fmt_map
  ELSE LET keys == split_on(fmt, ":")
           pos == CHOOSE i \in 1..Len(keys) :
                    keys[i] = key /\ \A j \in 1..(i - 1) : keys[j] # key
           toks == split_on(sample, ":")
           sample_tok == IF pos <= Len(toks) THEN toks[pos] ELSE <<>>
           pieces == split_on(sample_tok, ",")
           card == count_non_empty(pieces)
           kind == IF card = 0 THEN "Stringy" ELSE classify_value_token(pieces[1])
       IN IF key \in DOMAIN fmt_map THEN fmt_map
          ELSE Put(fmt_map, key, [kind |-> kind, card |-> card])

RECURSIVE scan_format_keys(_, _, _, _)
scan_format_keys(fmt_map, keys, fmt, sample) ==
  IF Len(keys) = 0 THEN fmt_map
  ELSE scan_format_keys(scan_format_key(fmt_map, keys[1], fmt, sample),
                        Tail(keys), fmt, sample)

\* what a block has gathered: (info_map, fmt_map, first_data)
BlockResult(im, fm, fd) == [info_map |-> im, fmt_map |-> fm, first_data |-> fd]

EmptyResult == BlockResult(EmptyMap, EmptyMap, None)

\* the body of `for line in &blk.lines`
scan_line(acc, line) ==
  LET trimmed == trim_end(line)
  IN IF Len(trimmed) = 0 \/ starts_with(trimmed, <<"#">>) THEN acc
     ELSE LET fd == IF acc.first_data.some THEN acc.first_data ELSE Some(trimmed)
              fields == split(trimmed)
          IN IF Len(fields) < 8 THEN BlockResult(acc.info_map, acc.fmt_map, fd)
             ELSE LET alt_ct == count_non_empty(split_on(fields[5], ","))
                      im == scan_info_items(acc.info_map,
                                            split_on(fields[8], ";"), alt_ct)
                      fm == IF Len(fields) >= 10
                              THEN scan_format_keys(acc.fmt_map,
                                     split_on(fields[9], ":"), fields[9], fields[10])
                              ELSE acc.fmt_map
                  IN BlockResult(im, fm, fd)

\* the closure of blocks.into_par_iter().map(..)
RECURSIVE scan_lines(_, _)
scan_lines(acc, lines) ==
  IF Len(lines) = 0 THEN acc
  ELSE scan_lines(scan_line(acc, lines[1]), Tail(lines))

infer_block(blk) == scan_lines(EmptyResult, blk)

merge_keystats_orAllInt(a, b) ==
  [seen_as_flag |-> a.seen_as_flag \/ b.seen_as_flag,
   all_int |-> a.all_int \/ b.all_int,
   any_float |-> a.any_float \/ b.any_float,
   all_singleton |-> a.all_singleton /\ b.all_singleton,
   matches_a |-> a.matches_a + b.matches_a,
   matches_r |-> a.matches_r + b.matches_r,
   samples |-> a.samples + b.samples]

merge_keystats(a, b) ==
  [seen_as_flag |-> a.seen_as_flag \/ b.seen_as_flag,
   all_int |-> a.all_int /\ b.all_int,
   any_float |-> a.any_float \/ b.any_float,
   all_singleton |-> a.all_singleton /\ b.all_singleton,
   matches_a |-> a.matches_a + b.matches_a,
   matches_r |-> a.matches_r + b.matches_r,
   samples |-> a.samples + b.samples]

merge_info_maps(a, b) ==
  [k \in DOMAIN a \cup DOMAIN b |->
     IF k \notin DOMAIN b THEN a[k]
     ELSE IF k \notin DOMAIN a THEN b[k]
     ELSE merge_keystats(a[k], b[k])]

merge_format_maps(a, b) ==
  [k \in DOMAIN a \cup DOMAIN b |-> IF k \in DOMAIN a THEN a[k] ELSE b[k]]

\* the loop `for (im, fm, fd) in results`, one iteration
merge_result(acc, r) ==
  BlockResult(merge_info_maps(acc.info_map, r.info_map),
              merge_format_maps(acc.fmt_map, r.fmt_map),
              IF acc.first_data.some THEN acc.first_data ELSE r.first_data)

\* the blocks read_blocks_and_spool cuts the body into
RECURSIVE read_blocks(_, _)
read_blocks(lines, block_cap) ==
  IF Len(lines) = 0 THEN <<>>
  ELSE IF Len(lines) <= block_cap THEN <<lines>>
  ELSE <<SubSeq(lines, 1, block_cap)>>
         \o read_blocks(SubSeq(lines, block_cap + 1, Len(lines)), block_cap)

(***************************************************************************)
(* Header inference: the declarations                                      *)
(***************************************************************************)
QUOTE == "\""

infer_info_def_with_empty_strictHalf(id, ks, allow_empty) ==
  LET typ == IF ks.seen_as_flag THEN <<"F", "l", "a", "g">>
             ELSE IF ks.all_int /\ ~ks.any_float THEN <<"I", "n", "t", "e", "g", "e", "r">>
             ELSE IF ks.any_float THEN <<"F", "l", "o", "a", "t">>
             ELSE <<"S", "t", "r", "i", "n", "g">>
      number == IF ks.seen_as_flag THEN <<"0">>
                ELSE IF ks.matches_a * 2 > ks.samples /\ ks.samples > 0 THEN <<"A">>
                ELSE IF ks.matches_r * 2 > ks.samples /\ ks.samples > 0 THEN <<"R">>
                ELSE IF ks.all_singleton THEN <<"1">>
                ELSE <<".">>
      desc == IF allow_empty /\ ks.samples = 0 THEN <<>>
              ELSE <<"I", "n", "f", "e", "r", "r", "e", "d", " ", "f", "r", "o", "m", " ", "b", "o", "d", "y">>
  IN <<"#", "#", "I", "N", "F", "O", "=", "<", "I", "D", "=">> \o id
       \o <<",", "N", "u", "m", "b", "e", "r", "=">> \o number
       \o <<",", "T", "y", "p", "e", "=">> \o typ
       \o <<",", "D", "e", "s", "c", "r", "i", "p", "t", "i", "o", "n", "=">> \o <<QUOTE>> \o desc \o <<QUOTE, ">">>

infer_info_def_with_empty(id, ks, allow_empty) ==
  LET typ == IF ks.seen_as_flag THEN <<"F", "l", "a", "g">>
             ELSE IF ks.all_int /\ ~ks.any_float THEN <<"I", "n", "t", "e", "g", "e", "r">>
             ELSE IF ks.any_float THEN <<"F", "l", "o", "a", "t">>
             ELSE <<"S", "t", "r", "i", "n", "g">>
      number == IF ks.seen_as_flag THEN <<"0">>
                ELSE IF ks.matches_a * 2 >= ks.samples /\ ks.samples > 0 THEN <<"A">>
                ELSE IF ks.matches_r * 2 >= ks.samples /\ ks.samples > 0 THEN <<"R">>
                ELSE IF ks.all_singleton THEN <<"1">>
                ELSE <<".">>
      desc == IF allow_empty /\ ks.samples = 0 THEN <<>>
              ELSE <<"I", "n", "f", "e", "r", "r", "e", "d", " ", "f", "r", "o", "m", " ", "b", "o", "d", "y">>
  IN <<"#", "#", "I", "N", "F", "O", "=", "<", "I", "D", "=">> \o id
       \o <<",", "N", "u", "m", "b", "e", "r", "=">> \o number
       \o <<",", "T", "y", "p", "e", "=">> \o typ
       \o <<",", "D", "e", "s", "c", "r", "i", "p", "t", "i", "o", "n", "=">> \o <<QUOTE>> \o desc \o <<QUOTE, ">">>

infer_format_def(id, example_kind, example_card) ==
  LET number == IF example_card = 0 THEN <<"0">>
                ELSE IF example_card = 1 THEN <<"1">>
                ELSE <<".">>
      typ == IF example_kind = "Int" THEN <<"I", "n", "t", "e", "g", "e", "r">>
             ELSE IF example_kind = "Float" THEN <<"F", "l", "o", "a", "t">>
             ELSE <<"S", "t", "r", "i", "n", "g">>
  IN <<"#", "#", "F", "O", "R", "M", "A", "T", "=", "<", "I", "D", "=">> \o id
       \o <<",", "N", "u", "m", "b", "e", "r", "=">> \o number
       \o <<",", "T", "y", "p", "e", "=">> \o typ
       \o <<",", "D", "e", "s", "c", "r", "i", "p", "t", "i", "o", "n", "=">> \o <<QUOTE>>
       \o <<"I", "n", "f", "e", "r", "r", "e", "d", " ", "f", "r", "o", "m", " ", "F", "O", "R", "M", "A", "T", " ", "c", "o", "l", "u", "m", "n">> \o <<QUOTE, ">">>

(***************************************************************************)
(* Specification of header inference                                       *)
(***************************************************************************)
MaxBody == 3

\* K is one integer, ALT has one allele
BodyKInt ==
  <<"1", TAB, "1", TAB, ".", TAB, "A", TAB, "T", TAB, ".", TAB, ".", TAB,
    "K", "=", "5">>

\* K has ALT count + 1 values, DB carries a value
BodyKPair ==
  <<"1", TAB, "1", TAB, ".", TAB, "A", TAB, "T", TAB, ".", TAB, ".", TAB,
    "K", "=", "1", ",", "2", ";", "D", "B", "=", "x">>

\* K with an empty value
BodyKEmpty ==
  <<"1", TAB, "1", TAB, ".", TAB, "A", TAB, "T", ",", "C", TAB, ".", TAB,
    ".", TAB, "K", "=">>

\* K has three values
BodyKTriple ==
  <<"1", TAB, "1", TAB, ".", TAB, "A", TAB, "T", TAB, ".", TAB, ".", TAB,
    "K", "=", "5", ",", "6", ",", "7">>

\* K is one word, ALT has two alleles
BodyKString ==
  <<"1", TAB, "1", TAB, ".", TAB, "A", TAB, "T", ",", "C", TAB, ".", TAB,
    ".", TAB, "K", "=", "x">>

\* N is beyond i64; FORMAT with a sample
BodyFmtA ==
  <<"1", TAB, "1", TAB, ".", TAB, "A", TAB, "T", TAB, ".", TAB, ".", TAB,
    "N", "=", "9", "2", "2", "3", "3", "7", "2", "0", "3", "6", "8", "5",
    "4", "7", "7", "5", "8", "0", "8", TAB, "G", "T", ":", "D", "P", TAB,
    "0", "/", "1", ":", "5">>

\* K is a float, DB is bare; FORMAT in another order
BodyFmtB ==
  <<"1", TAB, "1", TAB, ".", TAB, "A", TAB, "T", TAB, ".", TAB, ".", TAB,
    "K", "=", "1", ".", "5", ";", "D", "B", TAB, "D", "P", ":", "G", "T",
    TAB, "1", ".", "5", ",", "2", ":", ".">>

\* fewer than 8 fields
BodyShort ==
  <<"1", TAB, "2">>

\* a comment line inside the body
BodyComment ==
  <<"#", "x">>

BodyLines ==
  {BodyKInt, BodyKPair, BodyKEmpty, BodyKTriple,
   BodyKString, BodyFmtA, BodyFmtB, BodyShort,
   BodyComment}

\* bodies of up to MaxBody lines, and the ten-line bodies in which K is on
\* eight lines, always as one integer with one ALT allele, and two
\* neighbouring lines are without it
Bodies ==
  UNION {[1..n -> BodyLines] : n \in 0..MaxBody}
    \cup {[i \in 1..10 |-> IF i \in {p, p + 1} THEN BodyFmtA ELSE BodyKInt] :
            p \in 1..9}

\* a pre-header that declares N
PreHeaderN ==
  <<<<"#", "#", "I", "N", "F", "O", "=", "<", "I", "D", "=", "N", ",", "N", "u", "m", "b", "e", "r", "=", "1", ",", "T", "y", "p", "e", "=", "S", "t", "r", "i", "n", "g", ",", "D", "e", "s", "c", "r", "i", "p", "t", "i", "o", "n", "=">> \o <<QUOTE>> \o <<"n">> \o <<QUOTE>> \o <<">">>>>

StrInfoId == <<"#", "#", "I", "N", "F", "O", "=", "<", "I", "D", "=">>

StrFormatId == <<"#", "#", "F", "O", "R", "M", "A", "T", "=", "<", "I", "D", "=">>

StrFilter == <<"#", "#", "F", "I", "L", "T", "E", "R", "=", "<">>

\* existing_info, existing_format: the ids the pre-header declares
existing_ids(lines, prefix) ==
  {split_on(SubSeq(lines[i], Len(prefix) + 1, Len(lines[i])), ",")[1] :
     i \in {j \in 1..Len(lines) : starts_with(lines[j], prefix)}}

\* the pre-header declarations kept, then one line per inferred key that the
\* pre-header does not declare
synthesize_decls(pre, res) ==
  LET KeepDecl(l) == \/ starts_with(l, StrInfoId)
                     \/ starts_with(l, StrFormatId)
                     \/ starts_with(l, StrFilter)
      existing_info == existing_ids(pre, StrInfoId)
      existing_format == existing_ids(pre, StrFormatId)
      info_keys == btree_keys(DOMAIN res.info_map \ existing_info)
      fmt_keys == btree_keys(DOMAIN res.fmt_map \ existing_format)
  IN SelectSeq(pre, KeepDecl)
       \o [i \in 1..Len(info_keys) |->
             infer_info_def_with_empty(info_keys[i], res.info_map[info_keys[i]], TRUE)]
       \o [i \in 1..Len(fmt_keys) |->
             infer_format_def(fmt_keys[i], res.fmt_map[fmt_keys[i]].kind,
                              res.fmt_map[fmt_keys[i]].card)]

InitInfer ==
  /\ pre_header = PreHeaderN
  /\ spool \in Bodies
  /\ \E block_cap \in 1..MaxBody : blocks = read_blocks(spool, block_cap)
  /\ results = [i \in 1..Len(blocks) |-> None]
  /\ merged = 0
  /\ inferred = EmptyResult
  /\ decl_lines = None
  /\ InferAlone

\* a worker runs the closure on one block
InferBlock ==
  /\ \E i \in 1..Len(blocks) :
       /\ results[i] = None
       /\ results' = [results EXCEPT ![i] = Some(infer_block(blocks[i]))]
  /\ UNCHANGED <<pre_header, spool, blocks, merged, inferred, decl_lines, notInfer>>

\* one iteration of the merge loop, once every block has been collected
MergeNext ==
  /\ \A i \in 1..Len(blocks) : results[i].some
  /\ merged < Len(blocks)
  /\ inferred' = merge_result(inferred, results[merged + 1].v)
  /\ merged' = merged + 1
  /\ UNCHANGED <<pre_header, spool, blocks, results, decl_lines, notInfer>>

\* header_run pushes the declarations
SynthesizeDecls ==
  /\ \A i \in 1..Len(blocks) : results[i].some
  /\ merged = Len(blocks)
  /\ decl_lines = None
  /\ decl_lines' = Some(synthesize_decls(pre_header, inferred))
  /\ UNCHANGED <<pre_header, spool, blocks, results, merged, inferred, notInfer>>

NextInfer == InferBlock \/ MergeNext \/ SynthesizeDecls

SpecInfer == InitInfer /\ [][NextInfer]_vars

(***************************************************************************)
(* C15                                                                     *)
(***************************************************************************)
AllCollected == \A i \in 1..Len(blocks) : results[i].some

MergeDone == AllCollected /\ merged = Len(blocks)

\* the per-key statistics met so far, and the default
StatsSeen ==
  {KeyStatsDefault}
    \cup {inferred.info_map[k] : k \in DOMAIN inferred.info_map}
    \cup UNION {{results[i].v.info_map[k] : k \in DOMAIN results[i].v.info_map} :
                  i \in {j \in 1..Len(blocks) : results[j].some}}

C15_Fold == MergeDone => inferred = scan_lines(EmptyResult, spool)

C15_Algebra ==
  \A a \in StatsSeen :
    /\ merge_keystats(a, KeyStatsDefault) = a
    /\ merge_keystats(KeyStatsDefault, a) = a
    /\ \A b \in StatsSeen :
         /\ merge_keystats(a, b) = merge_keystats(b, a)
         /\ \A c \in StatsSeen :
              merge_keystats(a, merge_keystats(b, c)) =
                merge_keystats(merge_keystats(a, b), c)

\* C15: whatever the block size, the merged per-INFO-key statistics, the
\* per-FORMAT-key (kind, cardinality) and the first data line are those of
\* one pass over the whole body; the statistics merge is associative and
\* commutative and has the default statistics as identity.
C15_PartitionIndependent == C15_Fold /\ C15_Algebra

\* three one-line blocks were merged: K was seen twice, once as a float, and
\* DP kept the float pair of the first line that had it
C15_Witness ==
  /\ spool = <<BodyKInt, BodyFmtB, BodyFmtA>>
  /\ Len(blocks) = 3
  /\ merged = 3
  /\ inferred.info_map[<<"K">>].samples = 2
  /\ inferred.info_map[<<"K">>].any_float
  /\ inferred.fmt_map[<<"D", "P">>] = [kind |-> "Float", card |-> 2]
  /\ inferred.first_data = Some(BodyKInt)

(***************************************************************************)
(* C16                                                                     *)
(***************************************************************************)
\* the lines of the body that carry an INFO column
InfoLines ==
  {i \in 1..Len(spool) :
     LET l == trim_end(spool[i])
     IN Len(l) > 0 /\ ~starts_with(l, <<"#">>) /\ Len(split(l)) >= 8}

IsBare(item) == \A n \in 1..Len(item) : item[n] # "="

\* one appearance of a key: where, bare or not, its value text, and the
\* number of ALT alleles of its line
Appearance(i, j, item, alt) ==
  [line |-> i, place |-> j, bare |-> IsBare(item), alt |-> alt,
   key |-> IF IsBare(item) THEN item ELSE split_once(item, "=").v[1],
   text |-> IF IsBare(item) THEN <<>> ELSE split_once(item, "=").v[2]]

\* every appearance of every key in the body
AllAppearances ==
  UNION {LET fields == split(trim_end(spool[i]))
             items == split_on(fields[8], ";")
             alt == count_non_empty(split_on(fields[5], ","))
         IN {Appearance(i, j, items[j], alt) :
               j \in {n \in 1..Len(items) : Len(items[n]) > 0}} :
           i \in InfoLines}

\* the value tokens of an appearance: none when the value text is empty
ValueTokens(a) ==
  IF Len(a.text) = 0 THEN {}
  ELSE LET vals == split_on(a.text, ",") IN {vals[n] : n \in 1..Len(vals)}

\* the declarations of k among the lines pushed, cut at the commas
DeclsOf(k) ==
  {d \in {split_on(decl_lines.v[i], ",") : i \in 1..Len(decl_lines.v)} :
     d[1] = StrInfoId \o k}

StrNumberEq == <<"N", "u", "m", "b", "e", "r", "=">>

StrTypeEq == <<"T", "y", "p", "e", "=">>

\* the Type of a key from its appearances
ExpectedType(apps) ==
  LET kinds == {classify_value_token(v) : v \in UNION {ValueTokens(a) : a \in apps}}
  IN IF \E a \in apps : a.bare THEN <<"F", "l", "a", "g">>
     ELSE IF kinds \subseteq {"Int"} THEN <<"I", "n", "t", "e", "g", "e", "r">>
     ELSE IF "Float" \in kinds THEN <<"F", "l", "o", "a", "t">>
     ELSE <<"S", "t", "r", "i", "n", "g">>

\* C16: a key that is bare on some line is declared Flag with Number 0; any
\* other key is declared Integer when all its values are integers, Float
\* when one of them is a float, String otherwise.
C16_InfoType ==
  decl_lines.some =>
    LET all == AllAppearances
        declared == existing_ids(pre_header, StrInfoId)
    IN \A k \in {a.key : a \in all} \ declared :
         LET apps == {a \in all : a.key = k}
             decls == DeclsOf(k)
         IN /\ Cardinality(decls) = 1
            /\ \A d \in decls :
                 /\ d[3] = StrTypeEq \o ExpectedType(apps)
                 /\ (\E a \in apps : a.bare) => d[2] = StrNumberEq \o <<"0">>

\* DB carries a value on one line and is bare on another: Flag, Number 0;
\* K has an integer and a float: Float
C16_Witness ==
  /\ spool = <<BodyKPair, BodyFmtB>>
  /\ decl_lines.some
  /\ \E i \in 1..Len(decl_lines.v) :
       SubSeq(split_on(decl_lines.v[i], ","), 1, 3) =
         <<StrInfoId \o <<"D", "B">>, <<"N", "u", "m", "b", "e", "r", "=", "0">>, <<"T", "y", "p", "e", "=", "F", "l", "a", "g">>>>
  /\ \E i \in 1..Len(decl_lines.v) :
       LET d == split_on(decl_lines.v[i], ",")
       IN d[1] = StrInfoId \o <<"K">> /\ d[3] = <<"T", "y", "p", "e", "=", "F", "l", "o", "a", "t">>

(***************************************************************************)
(* C17                                                                     *)
(***************************************************************************)
\* how many values an appearance has: none when the value text is empty
ValueCount(a) ==
  IF Len(a.text) = 0 THEN 0 ELSE Len(split_on(a.text, ","))

\* Number as claimed, every appearance judged by its value count
ClaimedNumber(apps) ==
  LET n == Cardinality(apps)
      hits_a == Cardinality({a \in apps : ValueCount(a) = a.alt})
      hits_r == Cardinality({a \in apps : ValueCount(a) = a.alt + 1})
  IN IF 2 * hits_a >= n THEN <<"A">>
     ELSE IF 2 * hits_r >= n THEN <<"R">>
     ELSE IF \A a \in apps : ValueCount(a) = 1 THEN <<"1">>
     ELSE <<".">>

\* Number with the appearances of an empty value counted as appearances
\* only: they match neither ALT count nor ALT count + 1, and they do not
\* stand against "1"
ValuedNumber(apps) ==
  LET n == Cardinality(apps)
      valued == {a \in apps : Len(a.text) > 0}
      hits_a == Cardinality({a \in valued : ValueCount(a) = a.alt})
      hits_r == Cardinality({a \in valued : ValueCount(a) = a.alt + 1})
  IN IF 2 * hits_a >= n THEN <<"A">>
     ELSE IF 2 * hits_r >= n THEN <<"R">>
     ELSE IF \A a \in valued : ValueCount(a) = 1 THEN <<"1">>
     ELSE <<".">>

\* the keys header_run declares that are never bare, with their appearances
NumberHolds(Expected(_)) ==
  decl_lines.some =>
    LET all == AllAppearances
        declared == existing_ids(pre_header, StrInfoId)
    IN \A k \in {a.key : a \in all} \ declared :
         LET apps == {a \in all : a.key = k}
         IN (\A a \in apps : ~a.bare) =>
              \A d \in DeclsOf(k) : d[2] = StrNumberEq \o Expected(apps)

\* C17 as claimed: for a key that is never bare Number is A when at least
\* half of its appearances have as many values as the line has ALT alleles,
\* else R when at least half have one more, else 1 when every appearance has
\* exactly one value, else ".".
C17_InfoNumber == NumberHolds(ClaimedNumber)

\* C17 amended: the same, with an appearance whose value is empty counted
\* in the total only; Number is 1 when no appearance has two or more values.
C17_InfoNumberValued == NumberHolds(ValuedNumber)

\* K is on eight of ten lines, each time one integer with one ALT allele
C17_Witness ==
  /\ Len(spool) = 10
  /\ decl_lines.some
  /\ \E i \in 1..Len(decl_lines.v) :
       SubSeq(split_on(decl_lines.v[i], ","), 1, 3) =
         <<StrInfoId \o <<"K">>, <<"N", "u", "m", "b", "e", "r", "=", "A">>, <<"T", "y", "p", "e", "=", "I", "n", "t", "e", "g", "e", "r">>>>

(***************************************************************************)
(* Contig declarations (header.rs)                                         *)
(***************************************************************************)
\* "node\tstart\tend\tpath"
StrNodeHeader ==
  <<"n", "o", "d", "e", TAB, "s", "t", "a", "r", "t", TAB, "e", "n", "d",
    TAB, "p", "a", "t", "h">>

\* "##contig=<ID=" and ",length="
StrContigId ==
  <<"#", "#", "c", "o", "n", "t", "i", "g", "=", "<", "I", "D", "=">>

StrLength == <<",", "l", "e", "n", "g", "t", "h", "=">>

\* u64::max
u64_max(a, b) == IF U64Lt(a, b) THEN b ELSE a

\* the loop body of parse_reference_tsv for the line l at index i (from 0)
parse_reference_row(cs, i, l) ==
  IF Len(trim(l)) = 0 THEN cs
  ELSE IF i = 0 /\ starts_with(l, StrNodeHeader) THEN cs
  ELSE LET it == split(l)
           parsed == parse_u64(IF Len(it) >= 3 THEN it[3] ELSE <<"0">>)
           end == IF parsed.some THEN parsed.v ELSE U64Zero
           path == IF Len(it) >= 4 THEN it[4] ELSE <<>>
       IN IF Len(path) = 0 THEN cs
          ELSE IF path \in DOMAIN cs THEN Put(cs, path, u64_max(cs[path], end))
          ELSE Put(cs, path, end)

\* for (k, len) in &contigs: the normalized id keeps the largest len
RECURSIVE aggregate_contigs(_, _, _, _)
aggregate_contigs(keys, cs, lvl, nm) ==
  IF Len(keys) = 0 THEN nm
  ELSE LET k == keys[1]
           len == cs[k]
           id == header_apply_ignore_rules(k, lvl)
           entry == IF id.v \in DOMAIN nm THEN nm[id.v] ELSE U64Zero
       IN aggregate_contigs(Tail(keys), cs, lvl,
            IF id.some
              THEN Put(nm, id.v, IF U64Lt(entry, len) THEN len ELSE entry)
              ELSE nm)

\* format!("##contig=<ID={},length={}>") or format!("##contig=<ID={}>")
contig_line(id, len) ==
  IF U64Lt(U64Zero, len)
    THEN StrContigId \o id \o StrLength \o u64_to_string(len) \o <<">">>
    ELSE StrContigId \o id \o <<">">>

\* for (id, len) in norm_map: one line per id, in key order
contig_lines_of(nm) ==
  LET keys == btree_keys(DOMAIN nm)
  IN [n \in 1..Len(keys) |-> contig_line(keys[n], nm[keys[n]])]

(***************************************************************************)
(* Contig declarations: one pass over a reference table                    *)
(***************************************************************************)
MaxRows == 2

\* the header rows of the two forms of the table
RefHeader4 ==
  <<"n", "o", "d", "e", TAB, "s", "t", "a", "r", "t", TAB, "e", "n", "d",
    TAB, "p", "a", "t", "h">>

RefHeader6 ==
  <<"n", "o", "d", "e", TAB, "s", "t", "a", "r", "t", TAB, "e", "n", "d",
    TAB, "s", "e", "q", TAB, "l", "e", "n", "g", "t", "h", TAB, "p", "a",
    "t", "h">>

\* rows of the 4-column form, and an empty line
Row4Chr1 == <<"1", TAB, "0", TAB, "4", TAB, "c", "h", "r", "1">>

Row4Chr1Far == <<"2", TAB, "4", TAB, "9", TAB, "c", "h", "r", "1">>

Row4UnZero == <<"3", TAB, "0", TAB, "0", TAB, "c", "h", "r", "U", "n">>

Row4Decorated ==
  <<"4", TAB, "0", TAB, "7", TAB, "G", "R", "C", "h", "3", "8", ".", "c",
    "h", "r", "1">>

RowBlank == <<>>

\* rows of the 6-column form, as extract writes them
Row6Chr1 ==
  <<"1", TAB, "0", TAB, "4", TAB, "A", "C", "G", "T", TAB, "4", TAB, "c",
    "h", "r", "1">>

Row6Chr1Far ==
  <<"2", TAB, "4", TAB, "6", TAB, "G", "G", TAB, "2", TAB, "c", "h", "r",
    "1">>

Rows4 == {Row4Chr1, Row4Chr1Far, Row4UnZero, Row4Decorated, RowBlank}

Rows6 == {Row6Chr1, Row6Chr1Far}

\* the tables over a set of rows, with and without the header row
TablesOf(header, rows) ==
  LET bodies == UNION {[1..n -> rows] : n \in 0..MaxRows}
  IN bodies \cup {<<header>> \o b : b \in bodies}

RefTables == TablesOf(RefHeader4, Rows4) \cup TablesOf(RefHeader6, Rows6)

InitContig ==
  /\ reference_tsv \in RefTables
  /\ ignore \in IgnoreLevels
  /\ ref_i = 0
  /\ contigs = EmptyMap
  /\ norm_map = EmptyMap
  /\ contig_lines = None
  /\ ContigAlone

\* one iteration of the loop of parse_reference_tsv
ReadReferenceRow ==
  /\ ref_i < Len(reference_tsv)
  /\ contigs' = parse_reference_row(contigs, ref_i, reference_tsv[ref_i + 1])
  /\ ref_i' = ref_i + 1
  /\ UNCHANGED <<reference_tsv, ignore, norm_map, contig_lines, notContig>>

\* header_run, once parse_reference_tsv has returned Ok(contigs)
EmitContigs ==
  /\ ref_i = Len(reference_tsv)
  /\ ~contig_lines.some
  /\ LET nm == aggregate_contigs(btree_keys(DOMAIN contigs), contigs, ignore,
                                 EmptyMap)
     IN /\ norm_map' = nm
        /\ contig_lines' = Some(contig_lines_of(nm))
  /\ UNCHANGED <<reference_tsv, ignore, ref_i, contigs, notContig>>

NextContig == ReadReferenceRow \/ EmitContigs

SpecContig == InitContig /\ [][NextContig]_vars

\* the rows of the table: every non-empty line but a header row on line one
IsHeaderRow(n, l) == n = 1 /\ split(l)[1] = <<"n", "o", "d", "e">>

TableRows ==
  {n \in 1..Len(reference_tsv) :
     /\ Len(reference_tsv[n]) > 0
     /\ ~IsHeaderRow(n, reference_tsv[n])}

\* the path of a row is its last column, its end coordinate the third
RowPath(n) == LET f == split(reference_tsv[n]) IN f[Len(f)]

RowEnd(n) == parse_u64(split(reference_tsv[n])[3]).v

RowGroup(n) == header_apply_ignore_rules(RowPath(n), ignore)

ContigGroups == {RowGroup(n).v : n \in {r \in TableRows : RowGroup(r).some}}

GroupMax(id) ==
  LET rows == {n \in TableRows : RowGroup(n) = Some(id)}
      top == CHOOSE n \in rows : \A r \in rows : U64Le(RowEnd(r), RowEnd(n))
  IN RowEnd(top)

ExpectedContigLine(id) ==
  StrContigId \o id
    \o (IF GroupMax(id) # U64Zero
          THEN StrLength \o u64_to_string(GroupMax(id))
          ELSE <<>>)
    \o <<">">>

\* C18: the contig lines of the synthesized header are exactly one line per
\* group of path names (last column of each row of the 4- or 6-column table,
\* grouped by the normalizer's output at the configured level, rejected
\* names dropped), carrying the group's largest end coordinate as length
\* iff it is > 0; the table's header row produces no line.
C18_ContigLines ==
  contig_lines.some =>
    /\ {contig_lines.v[n] : n \in 1..Len(contig_lines.v)}
         = {ExpectedContigLine(id) : id \in ContigGroups}
    /\ Len(contig_lines.v) = Cardinality(ContigGroups)

(***************************************************************************)
(* Output files (main.rs, header.rs): names                                *)
(***************************************************************************)
StrVcf == <<".", "v", "c", "f">>

StrTmp == <<".", "t", "m", "p">>

StrSortedVcf == <<".", "s", "o", "r", "t", "e", "d", ".", "v", "c", "f">>

StrHeadedVcf == <<".", "h", "e", "a", "d", "e", "d", ".", "v", "c", "f">>

StrSpoolTmp == <<".", "s", "p", "o", "o", "l", ".", "t", "m", "p">>

\* str::strip_suffix
strip_suffix(s, k) ==
  IF Len(s) >= Len(k) /\ SubSeq(s, Len(s) - Len(k) + 1, Len(s)) = k
    THEN Some(SubSeq(s, 1, Len(s) - Len(k)))
    ELSE None

\* align_main::with_sorted_suffix
with_sorted_suffix(p) ==
  LET stripped == strip_suffix(p, StrVcf)
  IN IF stripped.some THEN stripped.v \o StrSortedVcf ELSE p \o StrSortedVcf

\* align_main::headed_in_original_dir, for names without a directory part
headed_in_original_dir(candidate_name) ==
  LET stripped == strip_suffix(candidate_name, StrVcf)
  IN IF stripped.some THEN stripped.v \o StrHeadedVcf
     ELSE candidate_name \o StrHeadedVcf

\* --output of align, --vcf and --output of header
OutputPath == <<"o", ".", "v", "c", "f">>

HeaderIn == <<"i", ".", "v", "c", "f">>

HeaderOut == <<"h", ".", "v", "c", "f">>

output_path == OutputPath

tmp_out == output_path \o StrTmp

final_output_path ==
  IF sort_enabled THEN with_sorted_suffix(output_path) ELSE output_path

align_out == IF sort_enabled THEN final_output_path ELSE output_path

headed_output == headed_in_original_dir(align_out)

\* header_run's vcf_in, out_path and tmp_path
vcf_in == IF command = "align" THEN align_out ELSE HeaderIn

out_path == IF command = "align" THEN headed_output ELSE HeaderOut

tmp_path == out_path \o StrSpoolTmp

(***************************************************************************)
(* Output files: the pipelines, one I/O operation per step                 *)
(***************************************************************************)
\* the lines of the rewritten (and the sorted) file, of the body spooled by
\* header_run, and of new_header
OutLines == 2

NewHeaderLines == 1

\* a file: what wrote it, and how many of its lines are there
FileOf(writer, n) == [made_by |-> writer, lines |-> n]

PreviousFile == FileOf("earlier run", OutLines)

InputFile == FileOf("input", OutLines)

\* File::create: the file exists and is empty
create(d, name, writer) == Put(d, name, FileOf(writer, 0))

\* writeln! / write_all of one more line
write_line(d, name) ==
  Put(d, name, FileOf(d[name].made_by, d[name].lines + 1))

\* fs::remove_file
remove_file(d, name) == [x \in DOMAIN d \ {name} |-> d[x]]

\* fs::rename: the target is replaced in one step
rename(d, from, to) == Put(remove_file(d, from), to, d[from])

\* the steps whose error is returned with ?
FallibleSteps ==
  {"stream_create", "stream_write", "sort_open", "sort_create", "sort_write",
   "rename", "header_open", "spool_create", "spool_write", "reference",
   "header_create", "header_write", "append_open", "append"}

\* the name under which the command's output is announced
FinalName ==
  IF command = "header" THEN HeaderOut
  ELSE IF no_header THEN align_out
  ELSE headed_output

InitPublish ==
  /\ \E c \in {<<"align", FALSE, FALSE>>, <<"align", FALSE, TRUE>>,
               <<"align", TRUE, FALSE>>, <<"align", TRUE, TRUE>>,
               <<"header", FALSE, FALSE>>} :
       /\ command = c[1]
       /\ sort_enabled = c[2]
       /\ no_header = c[3]
  /\ \E previous \in BOOLEAN :
       disk = LET inputs == IF command = "header"
                              THEN Put(EmptyMap, HeaderIn, InputFile)
                              ELSE EmptyMap
              IN IF previous THEN Put(inputs, FinalName, PreviousFile)
                 ELSE inputs
  /\ step = IF command = "align" THEN "stream_create" ELSE "header_open"
  /\ outcome = None
  /\ PublishAlone

Keep == UNCHANGED <<command, sort_enabled, no_header, notPublish>>

\* stream_replace_chrom_to_tmp: File::create(tmp_out_path)
StreamCreate ==
  /\ step = "stream_create"
  /\ disk' = create(disk, tmp_out, "rewriter")
  /\ step' = "stream_write"
  /\ UNCHANGED outcome /\ Keep

\* stream_replace_chrom_to_tmp: one line written, or the last one flushed
StreamWrite ==
  /\ step = "stream_write"
  /\ IF disk[tmp_out].lines < OutLines
       THEN /\ disk' = write_line(disk, tmp_out)
            /\ UNCHANGED step
       ELSE /\ step' = IF sort_enabled THEN "sort_open" ELSE "rename"
            /\ UNCHANGED disk
  /\ UNCHANGED outcome /\ Keep

\* what follows the sort or the rename
AfterFinalize(d) ==
  IF no_header
    THEN /\ disk' = d
         /\ step' = "done"
         /\ outcome' = Some("Ok")
    ELSE /\ disk' = d
         /\ step' = "header_open"
         /\ UNCHANGED outcome

\* fs::rename(&tmp_out, &output_path)
Rename ==
  /\ step = "rename"
  /\ AfterFinalize(rename(disk, tmp_out, output_path))
  /\ Keep

\* File::open(&tmp_out) and the read of its lines
SortOpen ==
  /\ step = "sort_open"
  /\ step' = "sort_create"
  /\ UNCHANGED <<disk, outcome>> /\ Keep

\* File::create(&final_output_path)
SortCreate ==
  /\ step = "sort_create"
  /\ disk' = create(disk, final_output_path, "sort")
  /\ step' = "sort_write"
  /\ UNCHANGED outcome /\ Keep

\* writeln!(out, ...) of one header or data line
SortWrite ==
  /\ step = "sort_write"
  /\ disk[final_output_path].lines < OutLines
  /\ disk' = write_line(disk, final_output_path)
  /\ UNCHANGED <<step, outcome>> /\ Keep

\* let _ = fs::remove_file(&tmp_out): done or not, the run goes on
SortRemoveTemp ==
  /\ step = "sort_write"
  /\ disk[final_output_path].lines = OutLines
  /\ \E removed \in BOOLEAN :
       AfterFinalize(IF removed THEN remove_file(disk, tmp_out) ELSE disk)
  /\ Keep

\* header_run: File::open(vcf_in)
HeaderOpen ==
  /\ step = "header_open"
  /\ vcf_in \in DOMAIN disk
  /\ step' = "spool_create"
  /\ UNCHANGED <<disk, outcome>> /\ Keep

\* header_run: File::create(&tmp_path)
SpoolCreate ==
  /\ step = "spool_create"
  /\ disk' = create(disk, tmp_path, "spool")
  /\ step' = "spool_write"
  /\ UNCHANGED outcome /\ Keep

\* read_blocks_and_spool: one body line spooled, or the end of the input
SpoolWrite ==
  /\ step = "spool_write"
  /\ IF disk[tmp_path].lines < disk[vcf_in].lines
       THEN /\ disk' = write_line(disk, tmp_path)
            /\ UNCHANGED step
       ELSE /\ step' = "reference"
            /\ UNCHANGED disk
  /\ UNCHANGED outcome /\ Keep

\* parse_reference_tsv(reference_tsv)?
ReadReference ==
  /\ step = "reference"
  /\ step' = "header_create"
  /\ UNCHANGED <<disk, outcome>> /\ Keep

\* File::create(&out_path)
HeaderCreate ==
  /\ step = "header_create"
  /\ disk' = create(disk, out_path, "header")
  /\ step' = "header_write"
  /\ UNCHANGED outcome /\ Keep

\* writeln!(out, "{}", l) for one line of new_header, or out.flush()
HeaderWrite ==
  /\ step = "header_write"
  /\ IF disk[out_path].lines < NewHeaderLines
       THEN /\ disk' = write_line(disk, out_path)
            /\ UNCHANGED step
       ELSE /\ step' = "append_open"
            /\ UNCHANGED disk
  /\ UNCHANGED outcome /\ Keep

\* OpenOptions::new().append(true).open(&out_path), File::open(&tmp_path)
AppendOpen ==
  /\ step = "append_open"
  /\ step' = "append"
  /\ UNCHANGED <<disk, outcome>> /\ Keep

\* io::copy: one more line of the spool appended
AppendBody ==
  /\ step = "append"
  /\ disk[out_path].lines < NewHeaderLines + disk[tmp_path].lines
  /\ disk' = write_line(disk, out_path)
  /\ UNCHANGED <<step, outcome>> /\ Keep

\* the copy is complete: remove_file(&tmp_path), and in align
\* remove_file(&align_out); neither failure stops the run
HeaderDone ==
  /\ step = "append"
  /\ disk[out_path].lines = NewHeaderLines + disk[tmp_path].lines
  /\ \E spool_removed \in BOOLEAN, intermediate_removed \in BOOLEAN :
       LET d1 == IF spool_removed THEN remove_file(disk, tmp_path) ELSE disk
       IN disk' = IF command = "align" /\ intermediate_removed
                    THEN remove_file(d1, align_out)
                    ELSE d1
  /\ step' = "done"
  /\ outcome' = Some("Ok")
  /\ Keep

\* an I/O operation fails and its error is returned with ?
IoError ==
  /\ step \in FallibleSteps
  /\ step' = "failed"
  /\ outcome' = Some("Err")
  /\ UNCHANGED disk /\ Keep

NextPublish ==
  \/ StreamCreate \/ StreamWrite \/ Rename
  \/ SortOpen \/ SortCreate \/ SortWrite \/ SortRemoveTemp
  \/ HeaderOpen \/ SpoolCreate \/ SpoolWrite \/ ReadReference
  \/ HeaderCreate \/ HeaderWrite \/ AppendOpen \/ AppendBody \/ HeaderDone
  \/ IoError

SpecPublish == InitPublish /\ [][NextPublish]_vars

\* the complete output of the command
CompleteOutput ==
  IF command = "align" /\ no_header
    THEN FileOf(IF sort_enabled THEN "sort" ELSE "rewriter", OutLines)
    ELSE FileOf("header", NewHeaderLines + OutLines)

\* C19: when an I/O step has failed, the file under the final output name
\* does not exist, is the untouched previous file, or holds the complete
\* output (in align with and without --sort, and in header synthesis).
C19_NoPartialOutput ==
  outcome = Some("Err") =>
    \/ FinalName \notin DOMAIN disk
    \/ disk[FinalName] = PreviousFile
    \/ disk[FinalName] = CompleteOutput

(***************************************************************************)
(* Path extraction (extract.rs)                                            *)
(***************************************************************************)
\* Display of an unsigned integer
display(n) == u64_to_string(U64Of(n))

\* "node\tstart\tend\tseq\tlength\tpath"
ExtractHeaderRow == RefHeader6

\* the for loop over path.nodes: one row per node, start running on
RECURSIVE path_rows_restart(_, _, _, _)
path_rows_restart(nodes, seqs, start, out_name) ==
  IF Len(nodes) = 0 THEN <<>>
  ELSE LET node == nodes[1]
           seq == seqs[node]
           len == Len(seq)
           end == start + len
       IN <<join(<<display(node), display(start), display(end), seq,
                   display(len), out_name>>)>>
            \o path_rows_restart(Tail(nodes), seqs, 0, out_name)

RECURSIVE path_rows(_, _, _, _)
path_rows(nodes, seqs, start, out_name) ==
  IF Len(nodes) = 0 THEN <<>>
  ELSE LET node == nodes[1]
           seq == seqs[node]
           len == Len(seq)
           end == start + len
       IN <<join(<<display(node), display(start), display(end), seq,
                   display(len), out_name>>)>>
            \o path_rows(Tail(nodes), seqs, end, out_name)

(***************************************************************************)
(* Path extraction: the parallel pass                                      *)
(***************************************************************************)
MaxPaths == 2

\* node sequences of the graphs
NodeSeqs == (1 :> <<"A", "C">>) @@ (2 :> <<"G">>)

\* paths: two accepted at every level, one only at level 0, one without nodes
PathChr1 == [name |-> <<"c", "h", "r", "1">>, nodes |-> <<1, 2>>]

PathChrX == [name |-> <<"c", "h", "r", "X">>, nodes |-> <<2>>]

PathCtg == [name |-> <<"c", "t", "g">>, nodes |-> <<1>>]

PathNoNodes == [name |-> <<"c", "h", "r", "2">>, nodes |-> <<>>]

GraphPaths == {PathChr1, PathChrX, PathCtg, PathNoNodes}

Graphs ==
  {[paths |-> ps, seqs |-> NodeSeqs] :
     ps \in UNION {[1..n -> GraphPaths] : n \in 0..MaxPaths}}

InitExtract ==
  /\ \E g \in Graphs : graph = Some(g)
  /\ extract_level \in {0, 4}
  /\ sink = <<>>
  /\ worker = [p \in 1..Len(graph.v.paths) |-> "todo"]
  /\ local_buf = [p \in 1..Len(graph.v.paths) |-> <<>>]
  /\ write_errors = 0
  /\ extract_step = "create"
  /\ extract_ret = None
  /\ ExtractAlone

KeepGraph == UNCHANGED <<graph, extract_level, notExtract>>

\* File::create(output_file)?
CreateOutput ==
  /\ extract_step = "create"
  /\ extract_step' = "header"
  /\ UNCHANGED <<sink, worker, local_buf, write_errors, extract_ret>>
  /\ KeepGraph

\* writeln!(guard, "node\tstart\tend\tseq\tlength\tpath")?
WriteHeaderRow ==
  /\ extract_step = "header"
  /\ sink' = Append(sink, ExtractHeaderRow)
  /\ extract_step' = "paths"
  /\ UNCHANGED <<worker, local_buf, write_errors, extract_ret>>
  /\ KeepGraph

\* either of the two fails: the error is returned with ?
ExtractIoError ==
  /\ extract_step \in {"create", "header"}
  /\ extract_step' = "failed"
  /\ extract_ret' = Some("Err")
  /\ UNCHANGED <<sink, worker, local_buf, write_errors>>
  /\ KeepGraph

\* the closure for path p, up to the lock: a rejected name or an empty
\* local_buf ends it
BuildRows(p) ==
  /\ extract_step = "paths"
  /\ worker[p] = "todo"
  /\ LET path == graph.v.paths[p]
         maybe_name == extract_apply_ignore_rules(path.name, extract_level)
         rows == IF maybe_name.some
                   THEN path_rows(path.nodes, graph.v.seqs, 0, maybe_name.v)
                   ELSE <<>>
     IN /\ local_buf' = [local_buf EXCEPT ![p] = rows]
        /\ worker' = [worker EXCEPT ![p] = IF Len(rows) = 0 THEN "done"
                                           ELSE "buffered"]
  /\ UNCHANGED <<sink, write_errors, extract_step, extract_ret>>
  /\ KeepGraph

\* guard.write_all(local_buf.as_bytes()) under the lock, returning Ok
WriteRows(p) ==
  /\ extract_step = "paths"
  /\ worker[p] = "buffered"
  /\ sink' = sink \o local_buf[p]
  /\ worker' = [worker EXCEPT ![p] = "done"]
  /\ UNCHANGED <<local_buf, write_errors, extract_step, extract_ret>>
  /\ KeepGraph

\* the same call returning Err after part of the rows: let _ = drops it
WriteRowsFails(p) ==
  /\ extract_step = "paths"
  /\ worker[p] = "buffered"
  /\ \E n \in 0..(Len(local_buf[p]) - 1) :
       sink' = sink \o SubSeq(local_buf[p], 1, n)
  /\ write_errors' = write_errors + 1
  /\ worker' = [worker EXCEPT ![p] = "done"]
  /\ UNCHANGED <<local_buf, extract_step, extract_ret>>
  /\ KeepGraph

\* for_each has returned: Ok(())
ExtractDone ==
  /\ extract_step = "paths"
  /\ \A p \in DOMAIN worker : worker[p] = "done"
  /\ extract_step' = "done"
  /\ extract_ret' = Some("Ok")
  /\ UNCHANGED <<sink, worker, local_buf, write_errors>>
  /\ KeepGraph

NextExtract ==
  \/ CreateOutput
  \/ WriteHeaderRow
  \/ ExtractIoError
  \/ \E p \in DOMAIN worker : BuildRows(p)
  \/ \E p \in DOMAIN worker : WriteRows(p)
  \/ \E p \in DOMAIN worker : WriteRowsFails(p)
  \/ ExtractDone

SpecExtract == InitExtract /\ [][NextExtract]_vars

\* C20: a failed write to the shared sink is fatal: extraction never
\* returns Ok after a worker's write to the sink has failed.
C20_FailedWriteFatal == extract_ret = Some("Ok") => write_errors = 0

(***************************************************************************)
(* C21                                                                     *)
(***************************************************************************)
\* the digits that open a text
RECURSIVE LeadingDigits(_)
LeadingDigits(s) ==
  IF Len(s) > 0 /\ is_ascii_digit(s[1])
    THEN <<s[1]>> \o LeadingDigits(Tail(s))
    ELSE <<>>

\* the token after the last marker: the digits that follow it, or else the
\* one letter X, Y or M in either case
DigitsOrLetter(s) ==
  LET tail == SubSeq(s, LastMarker(s) + 3, Len(s))
  IN IF Len(tail) = 0 THEN <<>>
     ELSE IF is_ascii_digit(tail[1]) THEN LeadingDigits(tail)
     ELSE IF tail[1] \in {"X", "Y", "M", "x", "y", "m"} THEN <<tail[1]>>
     ELSE <<>>

\* C21: at level 2 a name is kept, unchanged, exactly when it holds the
\* marker and a token follows it, the token being the longest run of digits
\* right after the marker or else the single letter X, Y or M in either
\* case; so "chr12M" is kept for its token "12" and "chrXY" for "X".
C21_TokenCapture ==
  (nm_io.some /\ nm_level = 2) =>
    nm_io.v = (IF HasMarker(nm_raw) /\ Len(DigitsOrLetter(nm_raw)) > 0
                 THEN Some(nm_raw)
                 ELSE None)

(***************************************************************************)
(* C22                                                                     *)
(***************************************************************************)
\* the name is accepted at the level
Accepts(l) == apply_ignore_rules(nm_raw, l).some

\* nothing of the name follows the token captured after the last marker
NothingFollows(s) == LastMarker(s) + 2 + Len(Captured(s)) = Len(s)

\* C22: the levels are nested. A name accepted at level 3 is accepted at
\* level 2, one accepted at level 2 is accepted at level 1, one accepted at
\* level 4 is accepted at level 2; at levels 1 to 3 the output is the name
\* itself; and level 3 accepts exactly the names level 2 accepts in which
\* nothing follows the captured token.
C22_Nested ==
  nm_io.some =>
    /\ (nm_level = 3 /\ nm_io.v.some) => Accepts(2)
    /\ (nm_level = 2 /\ nm_io.v.some) => Accepts(1)
    /\ (nm_level = 4 /\ nm_io.v.some) => Accepts(2)
    /\ (nm_level \in 1..3 /\ nm_io.v.some) => nm_io.v.v = nm_raw
    /\ nm_level = 3 =>
         (nm_io.v.some <=> (Accepts(2) /\ NothingFollows(nm_raw)))

(***************************************************************************)
(* Node id derivation (io_stream.rs): one record                           *)
(***************************************************************************)
\* CHROM columns: a number, digits at the end, digits in the middle, digits
\* twice, none, too many for a u64, a sign, leading zeros
ChromNumber == <<"1", "0">>

ChromDigitsLast == <<"n", "1", "1">>

ChromDigitsInside ==
  <<"c", "h", "r", "1", "2", "_", "r", "a", "n", "d", "o", "m">>

ChromDigitsTwice == <<"s", "3", ".", "c", "1", "4", "x">>

ChromNoDigits == <<"c", "h", "r", "X">>

ChromEmpty == <<>>

ChromLong ==
  <<"n", "1", "8", "4", "4", "6", "7", "4", "4", "0", "7", "3", "7", "0",
    "9", "5", "5", "1", "6", "1", "6">>

ChromSigned == <<"+", "5">>

ChromZeros == <<"0", "0", "7">>

Chroms ==
  {ChromNumber, ChromDigitsLast, ChromDigitsInside, ChromDigitsTwice,
   ChromNoDigits, ChromEmpty, ChromLong, ChromSigned, ChromZeros}

\* POS columns
PosColumns ==
  {<<"7">>, <<" ", "8">>, <<"z", "z">>, <<>>, <<"-", "1">>,
   <<"+", "9">>}

InitNodeId ==
  /\ nid_chrom \in Chroms
  /\ nid_pos \in PosColumns
  /\ nid_out = None
  /\ NodeIdAlone

\* lines 298-305 for the record
DeriveNodeId ==
  /\ nid_out = None
  /\ nid_out' = Some(node_id_opt(<<nid_chrom, nid_pos>>))
  /\ UNCHANGED <<nid_chrom, nid_pos, notNodeId>>

NextNodeId == DeriveNodeId

SpecNodeId == InitNodeId /\ [][NextNodeId]_vars

(***************************************************************************)
(* C23                                                                     *)
(***************************************************************************)
\* the longest run of digits that ends a text
RECURSIVE TrailingDigits(_)
TrailingDigits(s) ==
  IF Len(s) > 0 /\ is_ascii_digit(s[Len(s)])
    THEN TrailingDigits(SubSeq(s, 1, Len(s) - 1)) \o <<s[Len(s)]>>
    ELSE <<>>

\* the candidate CHROM yields: CHROM as an unsigned integer, else its
\* trailing digits as one
ChromCandidate(chrom) ==
  IF parse_u64(chrom).some THEN parse_u64(chrom)
  ELSE parse_u64(TrailingDigits(chrom))

\* C23: the node id of a record is CHROM parsed as an unsigned integer, else
\* the longest run of digits that ends CHROM; POS parsed as an integer is
\* the node id exactly when CHROM yields neither, and there is no node id
\* when POS yields none either.
C23_NodeId ==
  nid_out.some =>
    nid_out.v = (IF ChromCandidate(nid_chrom).some
                   THEN ChromCandidate(nid_chrom)
                   ELSE parse_u64(trim(nid_pos)))

(***************************************************************************)
(* Alignment table (io_stream.rs, read_alignment_tsv)                      *)
(***************************************************************************)
\* Option::unwrap_or
unwrap_or(o, d) == IF o.some THEN o.v ELSE d

\* the value of a u64 that fits the integers of the model
u64_value(v) ==
  v[1] + LimbBase * (v[2] + LimbBase * (v[3] + LimbBase * v[4]))

\* str::parse::<i64>()
parse_i64(s) ==
  IF ~parse_i64_ok(s) THEN None
  ELSE LET digits == IF s[1] \in {"+", "-"} THEN Tail(s) ELSE s
           mag == u64_value(ParseDigits(digits, U64Zero).v)
       IN Some(IF s[1] = "-" THEN 0 - mag ELSE mag)

\* the column names the header scan knows
NodeNames ==
  {<<"n", "o", "d", "e">>, <<"i", "d">>,
   <<"s", "e", "g", "m", "e", "n", "t">>, <<"s", "e", "g">>}

PathNames ==
  {<<"p", "a", "t", "h">>, <<"c", "h", "r", "o", "m">>,
   <<"n", "a", "m", "e">>}

DistanceNames ==
  {<<"d", "i", "s", "t", "a", "n", "c", "e">>, <<"d", "i", "s", "t">>,
   <<"o", "f", "f", "s", "e", "t">>}

PositionNames ==
  {<<"p", "o", "s", "i", "t", "i", "o", "n">>, <<"p", "o", "s">>}

\* the locals of read_alignment_tsv before its loop
AlnLocals ==
  [map |-> EmptyMap, idx_node |-> None, idx_path |-> None,
   idx_distance |-> None, idx_position |-> None, header_seen |-> FALSE]

\* for (i, col) in fields.iter().enumerate(), from column i on
RECURSIVE detect_columns(_, _, _)
detect_columns(st, fields, i) ==
  IF i >= Len(fields) THEN st
  ELSE LET c == to_ascii_lowercase(fields[i + 1])
           pick(cur, names) ==
             IF ~cur.some /\ c \in names THEN Some(i) ELSE cur
       IN detect_columns(
            [st EXCEPT !.idx_node = pick(@, NodeNames),
                       !.idx_path = pick(@, PathNames),
                       !.idx_distance = pick(@, DistanceNames),
                       !.idx_position = pick(@, PositionNames)],
            fields, i + 1)

\* whether the first token of a row marks it as a header
is_header_token(tok) ==
  LET l0 == to_ascii_lowercase(tok)
  IN contains(l0, <<"n", "o", "d", "e">>) \/ contains(l0, <<"i", "d">>)

\* the node id a data row carries under the indices of st, if any
row_node(st, fields) ==
  LET node_i == unwrap_or(st.idx_node, 0)
  IN IF Len(fields) <= node_i THEN None
     ELSE LET node_raw == trim(fields[node_i + 1])
          IN IF Len(node_raw) = 0 THEN None ELSE parse_u64(node_raw)

\* the AlnInfo a data row carries under the indices of st
row_info(st, fields) ==
  LET dist_i == unwrap_or(st.idx_distance, 1)
      pos_i == unwrap_or(st.idx_position, 2)
      last == IF Len(fields) = 0 THEN 0 ELSE Len(fields) - 1
      path_i == unwrap_or(st.idx_path, IF last > 4 THEN last ELSE 4)
  IN AlnInfo(
       IF Len(fields) > path_i THEN trim(fields[path_i + 1]) ELSE <<>>,
       IF Len(fields) > dist_i
         THEN unwrap_or(parse_i64(trim(fields[dist_i + 1])), 0)
         ELSE 0,
       IF Len(fields) > pos_i
         THEN unwrap_or(parse_u64(trim(fields[pos_i + 1])), U64Zero)
         ELSE U64Zero)

\* a data row: skipped without a node id, else map.insert(node, info)
insert_row_keepFirst(st, fields) ==
  LET node == row_node(st, fields)
  IN IF ~node.some \/ node.v \in DOMAIN st.map THEN st
     ELSE [st EXCEPT !.map = Put(@, node.v, row_info(st, fields))]

insert_row(st, fields) ==
  LET node == row_node(st, fields)
  IN IF ~node.some THEN st
     ELSE [st EXCEPT !.map = Put(@, node.v, row_info(st, fields))]

\* the loop body of read_alignment_tsv for one line
read_alignment_row(st, line) ==
  LET trimmed == trim(line)
      fields == split(trimmed)
  IN IF Len(trimmed) = 0 THEN st
     ELSE IF ~st.header_seen /\ is_header_token(fields[1])
       THEN detect_columns([st EXCEPT !.header_seen = TRUE], fields, 0)
     ELSE insert_row(st, fields)

(***************************************************************************)
(* Alignment table: one load                                               *)
(***************************************************************************)
MaxAlnRows == 3

\* header rows: the default column order, and distance and position swapped
AlnHeader ==
  <<"n", "o", "d", "e", TAB, "d", "i", "s", "t", "a", "n", "c", "e", TAB,
    "p", "o", "s", "i", "t", "i", "o", "n", TAB, "s", "t", "r", "a", "n",
    "d", TAB, "p", "a", "t", "h">>

AlnHeaderSwapped ==
  <<"n", "o", "d", "e", TAB, "p", "o", "s", "i", "t", "i", "o", "n", TAB,
    "d", "i", "s", "t", "a", "n", "c", "e", TAB, "s", "t", "r", "a", "n",
    "d", TAB, "p", "a", "t", "h">>

\* data rows: two for node 1, one for node 2, one whose node id is no
\* number, one of two columns
AlnRow1 == <<"1", TAB, "5", TAB, "7", TAB, "+", TAB, "c", "h", "r", "1">>

AlnRow1Again ==
  <<"1", TAB, "-", "2", TAB, "9", TAB, "+", TAB, "c", "h", "r", "2">>

AlnRow2 == <<"2", TAB, "3", TAB, "4", TAB, "+", TAB, "c", "h", "r", "X">>

AlnRowBadNode ==
  <<"x", TAB, "5", TAB, "7", TAB, "+", TAB, "c", "h", "r", "1">>

AlnRowShort == <<"2", TAB, "6">>

AlnRows ==
  {AlnHeader, AlnHeaderSwapped, AlnRow1, AlnRow1Again, AlnRow2,
   AlnRowBadNode, AlnRowShort, RowBlank}

AlnTables == UNION {[1..n -> AlnRows] : n \in 0..MaxAlnRows}

InitAlnLoad ==
  /\ aln_table \in AlnTables
  /\ aln_i = 0
  /\ idx_node = None
  /\ idx_path = None
  /\ idx_distance = None
  /\ idx_position = None
  /\ header_seen = FALSE
  /\ aln_store = EmptyMap
  /\ aln_ret = None
  /\ AlnLoadAlone

\* the locals, as one record
AlnState ==
  [map |-> aln_store, idx_node |-> idx_node, idx_path |-> idx_path,
   idx_distance |-> idx_distance, idx_position |-> idx_position,
   header_seen |-> header_seen]

\* one iteration of the loop
ReadAlignmentRow ==
  /\ aln_i < Len(aln_table)
  /\ LET st == read_alignment_row(AlnState, aln_table[aln_i + 1])
     IN /\ aln_store' = st.map
        /\ idx_node' = st.idx_node
        /\ idx_path' = st.idx_path
        /\ idx_distance' = st.idx_distance
        /\ idx_position' = st.idx_position
        /\ header_seen' = st.header_seen
  /\ aln_i' = aln_i + 1
  /\ UNCHANGED <<aln_table, aln_ret, notAlnLoad>>

\* Ok(map)
ReturnAlignment ==
  /\ aln_i = Len(aln_table)
  /\ ~aln_ret.some
  /\ aln_ret' = Some(aln_store)
  /\ UNCHANGED <<aln_table, aln_i, idx_node, idx_path, idx_distance,
                 idx_position, header_seen, aln_store, notAlnLoad>>

NextAlnLoad == ReadAlignmentRow \/ ReturnAlignment

SpecAlnLoad == InitAlnLoad /\ [][NextAlnLoad]_vars

(***************************************************************************)
(* C24                                                                     *)
(***************************************************************************)
\* the rows of a table that are not empty, in order
RECURSIVE NonEmptyRows(_)
NonEmptyRows(table) ==
  IF Len(table) = 0 THEN <<>>
  ELSE IF Len(trim(table[1])) = 0 THEN NonEmptyRows(Tail(table))
  ELSE <<split(trim(table[1]))>> \o NonEmptyRows(Tail(table))

\* every row read as a data row under one layout
RECURSIVE DataRows(_, _)
DataRows(st, rows) ==
  IF Len(rows) = 0 THEN st
  ELSE DataRows(insert_row(st, rows[1]), Tail(rows))

\* the store of a table whose layout its first non-empty row decides
FirstRowStore(table) ==
  LET rows == NonEmptyRows(table)
  IN IF Len(rows) = 0 THEN EmptyMap
     ELSE IF is_header_token(rows[1][1])
       THEN DataRows(detect_columns(AlnLocals, rows[1], 0), Tail(rows)).map
     ELSE DataRows(AlnLocals, rows).map

\* C24: the layout of an alignment table is decided from its first
\* non-empty row only: a header when that row's first token contains "node"
\* or "id", the columns node 0, distance 1, position 2 and path last or 4
\* otherwise; no later row changes the columns.
C24_LayoutFromFirstRow ==
  aln_ret.some => aln_ret.v = FirstRowStore(aln_table)

(***************************************************************************)
(* C25                                                                     *)
(***************************************************************************)
\* the rows read so far that the loader took as header (one at most)
HeaderRows ==
  {k \in 1..aln_i :
     /\ Len(trim(aln_table[k])) > 0
     /\ is_header_token(split(trim(aln_table[k]))[1])
     /\ \A j \in 1..(k - 1) :
          \/ Len(trim(aln_table[j])) = 0
          \/ ~is_header_token(split(trim(aln_table[j]))[1])}

\* the column indices in force when row k is read
LayoutAt(k) ==
  IF \E h \in HeaderRows : h < k
    THEN detect_columns(AlnLocals,
           split(trim(aln_table[CHOOSE h \in HeaderRows : TRUE])), 0)
    ELSE AlnLocals

\* the node id of row k when it is a well-formed data row
Carries(k) ==
  IF Len(trim(aln_table[k])) = 0 \/ k \in HeaderRows THEN None
  ELSE row_node(LayoutAt(k), split(trim(aln_table[k])))

InfoOf(k) == row_info(LayoutAt(k), split(trim(aln_table[k])))

NodesCarried == {Carries(k).v : k \in {j \in 1..aln_i : Carries(j).some}}

LastRowOf(n) ==
  CHOOSE k \in 1..aln_i :
    /\ Carries(k) = Some(n)
    /\ \A j \in (k + 1)..aln_i : Carries(j) # Some(n)

StrNodeTab == <<"n", "o", "d", "e", TAB>>

\* the locals of read_reference_tsv before its loop
RefLocals ==
  [map_path |-> EmptyMap, map_start |-> EmptyMap, map_seq |-> EmptyMap]

\* the loop body of read_reference_tsv for the line at index i (from 0)
read_reference_row(st, i, line) ==
  LET trimmed == trim(line)
      fields == split(trimmed)
  IN IF Len(trimmed) = 0 THEN st
     ELSE IF i = 0 /\ starts_with(to_ascii_lowercase(trimmed), StrNodeTab)
       THEN st
     ELSE IF Len(fields) < 4 THEN st
     ELSE LET node == parse_u64(trim(fields[1]))
              start == parse_u64(trim(fields[2]))
              path_val == trim(fields[Len(fields)])
              seq_val == trim(fields[4])
          IN IF ~node.some THEN st
             ELSE [map_start |->
                     IF start.some THEN Put(st.map_start, node.v, start.v)
                     ELSE st.map_start,
                   map_path |->
                     IF Len(path_val) > 0
                       THEN Put(st.map_path, node.v, path_val)
                       ELSE st.map_path,
                   map_seq |->
                     IF Len(fields) >= 6 /\ Len(seq_val) > 0
                       THEN Put(st.map_seq, node.v, seq_val)
                       ELSE st.map_seq]

\* OnceLock::set: the cell keeps the value it has
once_set_overwrite(cell, v) == Some(v)

once_set(cell, v) == IF cell.some THEN cell ELSE Some(v)

(***************************************************************************)
(* Reference table: loads, and a rewriter run after them                   *)
(***************************************************************************)
MaxRefRows == 2

\* rows: two for node 10 on different paths, a 6-column row for node 11,
\* a row whose node id is no number, a row of three columns
RefRow10 == <<"1", "0", TAB, "0", TAB, "4", TAB, "c", "h", "r", "1">>

RefRow10Moved == <<"1", "0", TAB, "7", TAB, "9", TAB, "c", "h", "r", "2">>

RefRow11Seq ==
  <<"1", "1", TAB, "4", TAB, "6", TAB, "G", "G", TAB, "2", TAB, "c", "h",
    "r", "1">>

RefRowBadNode == <<"x", TAB, "0", TAB, "4", TAB, "c", "h", "r", "1">>

RefRowShort == <<"1", "1", TAB, "0", TAB, "4">>

RefRows ==
  {RefHeader4, RefRow10, RefRow10Moved, RefRow11Seq, RefRowBadNode,
   RefRowShort, RowBlank}

RefLoadTables == UNION {[1..n -> RefRows] : n \in 0..MaxRefRows}

\* one call on any table, or two calls on tables of one row at most
RefCalls ==
  {<<a>> : a \in RefLoadTables}
    \cup {<<a, b>> : a, b \in {c \in RefLoadTables : Len(c) <= 1}}

\* the files a rewriter run after the loads reads
PassFiles == {<<LineNode10>>, <<LineSuffix11, LineNode10>>}

InitRefLoad ==
  /\ ref_calls \in RefCalls
  /\ ref_call = 1
  /\ ref_line = 0
  /\ map_path = EmptyMap
  /\ map_start = EmptyMap
  /\ map_seq = EmptyMap
  /\ ref_returned = <<>>
  /\ RefLoadAlone

\* one iteration of the loop of the call under way
ReadReferenceLine ==
  /\ pc \in {"idle", "done"}
  /\ ref_call <= Len(ref_calls)
  /\ ref_line < Len(ref_calls[ref_call])
  /\ LET st == read_reference_row(
                 [map_path |-> map_path, map_start |-> map_start,
                  map_seq |-> map_seq],
                 ref_line, ref_calls[ref_call][ref_line + 1])
     IN /\ map_path' = st.map_path
        /\ map_start' = st.map_start
        /\ map_seq' = st.map_seq
  /\ ref_line' = ref_line + 1
  /\ UNCHANGED <<ref_calls, ref_call, ref_returned, notRefLoad>>

\* the three set calls and Ok(map_path)
ReturnReference ==
  /\ pc \in {"idle", "done"}
  /\ ref_call <= Len(ref_calls)
  /\ ref_line = Len(ref_calls[ref_call])
  /\ REF_NODE2PATH' = once_set(REF_NODE2PATH, map_path)
  /\ REF_NODE2START' = once_set(REF_NODE2START, map_start)
  /\ REF_NODE2SEQ' = once_set(REF_NODE2SEQ, map_seq)
  /\ ref_returned' =
       Append(ref_returned,
              [map_path |-> map_path, map_start |-> map_start,
               map_seq |-> map_seq])
  /\ ref_call' = ref_call + 1
  /\ ref_line' = 0
  /\ map_path' = EmptyMap
  /\ map_start' = EmptyMap
  /\ map_seq' = EmptyMap
  /\ UNCHANGED <<ref_calls, node2aln, skip, ignore_level, gfa, aln_paths,
                 vcf, cursor, out, stats, pass, pc,
                 notRefLoadNorRewriter>>

\* the rewriter is called on a file, with no alignment map and no graph,
\* between two calls of read_reference_tsv or after them
CallRewriter ==
  /\ pc = "idle"
  /\ ref_call > 1
  /\ ref_line = 0
  /\ vcf' \in PassFiles
  /\ pc' = "run"
  /\ UNCHANGED <<node2aln, REF_NODE2PATH, REF_NODE2START, REF_NODE2SEQ,
                 skip, ignore_level, gfa, aln_paths, cursor, out, stats,
                 pass, notRewriter>>

NextRefLoad ==
  \/ ReadReferenceLine
  \/ ReturnReference
  \/ CallRewriter
  \/ ProcessLine
  \/ Finish
  \/ Rerun

SpecRefLoad == InitRefLoad /\ [][NextRefLoad]_vars

\* either loader, on its table
InitLoad == InitAlnLoad \/ InitRefLoad

NextLoad == NextAlnLoad \/ NextRefLoad

SpecLoad == InitLoad /\ [][NextLoad]_vars

(***************************************************************************)
(* C26                                                                     *)
(***************************************************************************)
\* read_alignment_tsv and read_reference_tsv as functions of the table
RECURSIVE AlignmentRows(_, _)
AlignmentRows(st, table) ==
  IF Len(table) = 0 THEN st
  ELSE AlignmentRows(read_alignment_row(st, table[1]), Tail(table))

AlignmentStore(table) == AlignmentRows(AlnLocals, table).map

RECURSIVE ReferenceRows(_, _, _)
ReferenceRows(st, i, table) ==
  IF i >= Len(table) THEN st
  ELSE ReferenceRows(read_reference_row(st, i, table[i + 1]), i + 1, table)

ReferenceStore(table) == ReferenceRows(RefLocals, 0, table)

\* the first non-empty row of a table, 0 when it has none
FirstRow(table) ==
  LET full == {k \in 1..Len(table) : Len(trim(table[k])) > 0}
  IN IF full = {} THEN 0 ELSE CHOOSE k \in full : \A j \in full : k <= j

\* the layout of an alignment table, as its first non-empty row gives it
TableLayout(table) ==
  LET k == FirstRow(table)
  IN IF k > 0 /\ is_header_token(split(trim(table[k]))[1])
       THEN detect_columns(AlnLocals, split(trim(table[k])), 0)
       ELSE AlnLocals

\* a row of an alignment table that is neither empty nor the header and
\* holds no unsigned integer in the node column, or not that column at all
MalformedAln(table, k) ==
  /\ Len(trim(table[k])) > 0
  /\ ~(k = FirstRow(table) /\ is_header_token(split(trim(table[k]))[1]))
  /\ ~row_node(TableLayout(table), split(trim(table[k]))).some

\* a row of a reference table that is neither empty nor the header on line
\* one and has fewer than four columns or no unsigned integer in the first
MalformedRef(table, k) ==
  /\ Len(trim(table[k])) > 0
  /\ ~(k = 1 /\ starts_with(to_ascii_lowercase(trim(table[k])), StrNodeTab))
  /\ \/ Len(split(trim(table[k]))) < 4
     \/ ~parse_u64(trim(split(trim(table[k]))[1])).some

\* the rows at the positions in keep, in order
RECURSIVE RowsAt(_, _, _)
RowsAt(table, keep, k) ==
  IF k > Len(table) THEN <<>>
  ELSE (IF k \in keep THEN <<table[k]>> ELSE <<>>)
         \o RowsAt(table, keep, k + 1)

WithoutMalformedAln(table) ==
  RowsAt(table, {k \in 1..Len(table) : ~MalformedAln(table, k)}, 1)

WithoutMalformedRef(table) ==
  RowsAt(table, {k \in 1..Len(table) : ~MalformedRef(table, k)}, 1)

\* the reference loads end as if the malformed rows were not in the table
C26_ReferenceRows ==
  \A c \in 1..Len(ref_returned) :
    ref_returned[c] = ReferenceStore(WithoutMalformedRef(ref_calls[c]))

\* C26: a malformed row (too few columns, or a node id that is no number)
\* of a reference or alignment table is skipped without failing the load
\* and without changing any map: the maps a load ends with are those of
\* the table with its malformed rows removed.
C26_MalformedSkipped ==
  /\ C26_ReferenceRows
  /\ aln_ret.some =>
       aln_ret.v = AlignmentStore(WithoutMalformedAln(aln_table))

(***************************************************************************)
(* C27                                                                     *)
(***************************************************************************)
\* what the resolver reads: the three cells
ReferenceCells == <<REF_NODE2PATH, REF_NODE2START, REF_NODE2SEQ>>

\* C27: once loaded, the reference store does not change: no rewriter pass
\* and no further call of read_reference_tsv on another table changes what
\* the resolver reads, and what it reads are the maps of the table whose
\* load returned first.
C27_StoreImmutable ==
  /\ [](REF_NODE2PATH.some =>
          /\ ref_returned # <<>>
          /\ REF_NODE2PATH.v = ref_returned[1].map_path
          /\ REF_NODE2START = Some(ref_returned[1].map_start)
          /\ REF_NODE2SEQ = Some(ref_returned[1].map_seq))
  /\ [][REF_NODE2PATH.some => ReferenceCells' = ReferenceCells]_vars

\* two tables with different maps were loaded and a rewriter run that took
\* a path from the store has ended
C27_Witness ==
  /\ Len(ref_returned) = 2
  /\ ref_returned[1] # ref_returned[2]
  /\ pc = "done"
  /\ stats.used_ref_map > 0
  /\ REF_NODE2PATH = Some(ref_returned[1].map_path)

(***************************************************************************)
(* C28                                                                     *)
(***************************************************************************)
\* the paths whose closure has ended
Ended == {p \in DOMAIN worker : worker[p] = "done"}

\* the orders in which they may have taken the lock
Orders(ps) ==
  {f \in [1..Cardinality(ps) -> ps] :
     \A i, j \in 1..Cardinality(ps) : f[i] = f[j] => i = j}

\* where node k of a path starts: 0, then the end of the node before
RECURSIVE StartOf(_, _)
StartOf(path, k) ==
  IF k = 1 THEN 0
  ELSE StartOf(path, k - 1) + Len(graph.v.seqs[path.nodes[k - 1]])

\* the row of node k of path p
RowOf(p, k) ==
  LET path == graph.v.paths[p]
      seq == graph.v.seqs[path.nodes[k]]
  IN join(<<display(path.nodes[k]), display(StartOf(path, k)),
            display(StartOf(path, k) + Len(seq)), seq, display(Len(seq)),
            extract_apply_ignore_rules(path.name, extract_level).v>>)

\* the rows of path p in node order: none when its name is rejected
RunOf(p) ==
  LET path == graph.v.paths[p]
  IN IF extract_apply_ignore_rules(path.name, extract_level).some
       THEN [k \in 1..Len(path.nodes) |-> RowOf(p, k)]
       ELSE <<>>

\* the runs of the paths in the order f, each cut after cut[p] rows
RECURSIVE Runs(_, _, _)
Runs(f, cut, i) ==
  IF i > Len(f) THEN <<>>
  ELSE SubSeq(RunOf(f[i]), 1, cut[f[i]]) \o Runs(f, cut, i + 1)

\* C28: the output of a parallel extraction starts with the header row;
\* after it the rows of each path form one contiguous run, in the node
\* order of the path, the first row starting at 0 and every next one where
\* the row before ended; a run is whole unless its write failed; the order
\* of the runs is not fixed.
C28_ContiguousRuns ==
  extract_step \in {"paths", "done"} =>
    \E f \in Orders(Ended) :
      \E cut \in [Ended -> 0..Len(sink)] :
        /\ \A p \in Ended :
             /\ cut[p] <= Len(RunOf(p))
             /\ write_errors = 0 => cut[p] = Len(RunOf(p))
        /\ sink = <<ExtractHeaderRow>> \o Runs(f, cut, 1)

\* extraction has returned with every write done, and the run of the
\* second path, which differs from that of the first, was written first
C28_Witness ==
  /\ extract_ret = Some("Ok")
  /\ write_errors = 0
  /\ Len(graph.v.paths) = 2
  /\ Len(RunOf(1)) = 2
  /\ Len(RunOf(2)) > 0
  /\ RunOf(1)[1] # RunOf(2)[1]
  /\ sink = <<ExtractHeaderRow>> \o RunOf(2) \o RunOf(1)

(***************************************************************************)
(* QTL renaming (name.rs)                                                  *)
(***************************************************************************)
\* str::strip_prefix
strip_prefix(s, k) ==
  IF starts_with(s, k) THEN Some(SubSeq(s, Len(k) + 1, Len(s))) ELSE None

\* norm_chr, if let Some(s) = c.strip_prefix(k) { c = s }
strip_known_prefix(c, k) == unwrap_or(strip_prefix(c, k), c)

\* norm_chr, match c { "Mt" | "MT" | "mt" => "M", other => other }
mt_as_m(c) ==
  IF c \in {<<"M", "t">>, <<"M", "T">>, <<"m", "t">>}
    THEN <<"M">>
    ELSE c

\* norm_chr, the number test: (1..=22).contains(&n), then n.to_string()
chr_number(n) ==
  IF n.some /\ n.v[2] = 0 /\ 1 <= n.v[1] /\ n.v[1] <= 22
    THEN Some(u64_to_string(n.v))
    ELSE None

\* norm_chr, the allowed names: X, Y, M or a number from 1 to 22
allowed_chr(c) ==
  IF c \in {<<"X">>, <<"Y">>, <<"M">>} THEN Some(c)
  ELSE chr_number(parse_u32(c))

\* norm_chr: chr and CHR stripped, MT read as M; X, Y, M or 1..22
norm_chr(raw) ==
  allowed_chr(mt_as_m(strip_known_prefix(
    strip_known_prefix(trim(raw), <<"c", "h", "r">>), <<"C", "H", "R">>)))

\* make_key: format!("{}:{}:{}:{}")
make_key(chrom, pos, ref_allele, alt_allele) ==
  LET chr == norm_chr(chrom)
  IN IF ~chr.some THEN None
     ELSE Some(chr.v \o <<":">> \o pos \o <<":">> \o ref_allele \o <<":">>
                 \o alt_allele)

\* is_probable_header_tsv: the second column names the variant column
is_probable_header_tsv(line) ==
  LET cols == split(line)
  IN /\ Len(cols) >= 2
     /\ to_ascii_lowercase(cols[2]) \in
          {<<"s", "n", "p">>, <<"v", "a", "r", "i", "a", "n", "t">>,
           <<"n", "o", "d", "e">>}

\* try_normalize_token: chrom:pos:ref:alt with a known chromosome
try_normalize_token(token) ==
  LET trimmed == trim(token)
      parts == split_on(trimmed, ":")
  IN IF Len(trimmed) = 0 \/ Len(parts) < 4 THEN None
     ELSE make_key(parts[1], parts[2], parts[3], parts[4])

\* load_map_from_tsv: the first two columns of every line, the last line
\* of a key staying
RECURSIVE load_map_from_tsv(_, _)
load_map_from_tsv(m, lines) ==
  IF Len(lines) = 0 THEN m
  ELSE LET line == lines[1]
           it == split(line)
       IN load_map_from_tsv(
            IF Len(line) = 0 \/ line[1] = "#" \/ Len(it) < 2 THEN m
            ELSE Put(m, it[1], it[2]),
            Tail(lines))

\* the closure of process_chunk, its result for a line with a key
triple_of(cols, norm) ==
  IF ~norm.some THEN None
  ELSE Some([id |-> IF cols[3] # <<".">> /\ Len(cols[3]) > 0
                      THEN Some(cols[3]) ELSE None,
             key |-> norm.v,
             pos |-> trim(cols[2])])

\* the closure of process_chunk on the fields of a line
fields_triple(cols) ==
  IF Len(cols) < 5 THEN None
  ELSE triple_of(cols, make_key(cols[1], trim(cols[2]), cols[4],
                                split_on(cols[5], ",")[1]))

\* the closure of process_chunk for one line: (id, key, pos) or nothing
record_triple(l) == fields_triple(split(l))

\* the locals of the build: map, pos_map, pos_dupe and the lines written
\* to the temporary map
BuildLocals(m, pm, pd, w) ==
  [map |-> m, pos_map |-> pm, pos_dupe |-> pd, written |-> w]

\* map.insert(idk, v), the line written when the key is new
insert_id(st, idk, v) ==
  [st EXCEPT !.map = Put(@, idk, v),
             !.written = IF idk \in DOMAIN st.map THEN @
                         ELSE Append(@, idk \o <<TAB>> \o v)]

\* the three branches of the mode that stores every mapping
insert_key(st, k) == [st EXCEPT !.map = Put(@, k, k)]

insert_pos(st, posk, normv) ==
  IF posk \in st.pos_dupe THEN st
  ELSE IF posk \in DOMAIN st.pos_map
    THEN IF st.pos_map[posk] # normv
           THEN [st EXCEPT
                   !.pos_map = [x \in DOMAIN @ \ {posk} |-> @[x]],
                   !.pos_dupe = @ \cup {posk}]
           ELSE st
  ELSE [st EXCEPT !.pos_map = Put(@, posk, normv)]

\* the mode that stores every mapping: the key, the ID, the position
add_all(with_key, tr) ==
  insert_pos(IF tr.id.some THEN insert_id(with_key, tr.id.v, tr.key)
             ELSE with_key,
             tr.pos, tr.key)

\* the body of the loop over the triples for one triple
add_triple(st, tr, ids_only) ==
  IF ~tr.some THEN st
  ELSE IF ids_only
    THEN IF tr.v.id.some /\ AllDigits(tr.v.id.v)
           THEN insert_id(st, tr.v.id.v, tr.v.key)
           ELSE st
  ELSE add_all(insert_key(st, tr.v.key), tr.v)

\* the closure and the loop body for one line
add_record(st, l, ids_only) == add_triple(st, record_triple(l), ids_only)

\* for (k, v) in pos_map: map.entry(k).or_insert(v)
merge_pos_map(m, pm) ==
  [k \in DOMAIN m \cup DOMAIN pm |-> IF k \in DOMAIN m THEN m[k] ELSE pm[k]]

\* replace_col2_with_map: the line written for a QTL row
replace_col2_with_map(line, m) ==
  LET cols == split(line)
      col2 == trim(cols[2])
      norm2 == try_normalize_token(col2)
  IN IF Len(cols) < 2 THEN line
     ELSE IF col2 \in DOMAIN m THEN join([cols EXCEPT ![2] = m[col2]])
     ELSE IF norm2.some /\ norm2.v \in DOMAIN m
       THEN join([cols EXCEPT ![2] = m[norm2.v]])
     ELSE line

(***************************************************************************)
(* QTL renaming: one run that builds map.tsv, one that finds it            *)
(***************************************************************************)
MaxRecords == 2

\* VCF lines: two records with the ID 5 and different keys, a record with
\* two ALT alleles, one without ID, one with a name as ID, one on a
\* chromosome norm_chr rejects, a comment
VcfId5 == <<"1", TAB, "1", "0", "0", TAB, "5", TAB, "A", TAB, "T">>

VcfId5Again ==
  <<"c", "h", "r", "1", TAB, "2", "0", "0", TAB, "5", TAB, "C", TAB, "G">>

VcfId7 ==
  <<"c", "h", "r", "X", TAB, "1", "0", "0", TAB, "7", TAB, "G", TAB, "A",
    ",", "C">>

VcfNoId == <<"2", TAB, "3", "0", "0", TAB, ".", TAB, "T", TAB, "C">>

VcfNamedId == <<"M", "T", TAB, "9", TAB, "r", "s", "1", TAB, "A", TAB, "G">>

VcfUnplaced ==
  <<"c", "h", "r", "U", "n", TAB, "4", TAB, "8", TAB, "A", TAB, "C">>

VcfComment == <<"#", "c">>

VcfLines ==
  {VcfId5, VcfId5Again, VcfId7, VcfNoId, VcfNamedId, VcfUnplaced,
   VcfComment}

VcfFiles == UNION {[1..n -> VcfLines] : n \in 0..MaxRecords}

\* QTL tables: with a header row and without
QtlHeader == <<"g", "e", "n", "e", TAB, "s", "n", "p", TAB, "p">>

QtlById == <<"g", "1", TAB, "5", TAB, "0", ".", "1">>

QtlByKey ==
  <<"g", "2", TAB, "c", "h", "r", "1", ":", "1", "0", "0", ":", "A", ":",
    "T", TAB, "0", ".", "2">>

QtlByPos == <<"g", "3", TAB, "3", "0", "0", TAB, "0", ".", "3">>

QtlByName == <<"g", "4", TAB, "r", "s", "1", TAB, "0", ".", "4">>

QtlTables ==
  {<<QtlHeader, QtlById, QtlByKey>>, <<QtlById, QtlByName, QtlByPos>>}

MapModes == {"ids-only", "all"}

InitRename ==
  /\ rn_vcf \in VcfFiles
  /\ rn_qtl \in QtlTables
  /\ map_mode \in MapModes
  /\ rn_run = 1
  /\ rn_step = "map"
  /\ rn_i = 0
  /\ id_key_map = EmptyMap
  /\ pos_map = EmptyMap
  /\ pos_dupe = {}
  /\ map_tmp = None
  /\ map_final = None
  /\ renamed = <<>>
  /\ rebuilt = None
  /\ RenameAlone

KeepInputs == UNCHANGED <<rn_vcf, rn_qtl, map_mode, notRename>>

\* map.tsv is not there: File::create of the temporary map
CreateTempMap ==
  /\ rn_step = "map"
  /\ ~map_final.some \/ map_tmp.some
  /\ map_tmp' = Some(<<>>)
  /\ rn_step' = "build"
  /\ UNCHANGED <<rn_run, rn_i, id_key_map, pos_map, pos_dupe, map_final,
                 renamed, rebuilt>>
  /\ KeepInputs

\* one line of the VCF: comments and empty lines are passed over
BuildLine ==
  /\ rn_step = "build"
  /\ rn_i < Len(rn_vcf)
  /\ LET line == rn_vcf[rn_i + 1]
         st == IF Len(line) = 0 \/ line[1] = "#"
                 THEN BuildLocals(id_key_map, pos_map, pos_dupe, map_tmp.v)
                 ELSE add_record(
                        BuildLocals(id_key_map, pos_map, pos_dupe,
                                    map_tmp.v),
                        line, map_mode = "ids-only")
     IN /\ id_key_map' = st.map
        /\ pos_map' = st.pos_map
        /\ pos_dupe' = st.pos_dupe
        /\ map_tmp' = Some(st.written)
  /\ rn_i' = rn_i + 1
  /\ UNCHANGED <<rn_run, rn_step, map_final, renamed, rebuilt>>
  /\ KeepInputs

\* the end of the VCF: pos_map merged, the temporary map renamed
FinishBuild ==
  /\ rn_step = "build"
  /\ rn_i = Len(rn_vcf)
  /\ id_key_map' = IF map_mode # "ids-only"
                     THEN merge_pos_map(id_key_map, pos_map)
                     ELSE id_key_map
  /\ map_final' = map_tmp
  /\ map_tmp' = None
  /\ rn_step' = "qtl"
  /\ rn_i' = 0
  /\ UNCHANGED <<rn_run, pos_map, pos_dupe, renamed, rebuilt>>
  /\ KeepInputs

\* map.tsv is there and no temporary map: it is loaded
LoadMap ==
  /\ rn_step = "map"
  /\ map_final.some
  /\ ~map_tmp.some
  /\ id_key_map' = load_map_from_tsv(EmptyMap, map_final.v)
  /\ rn_step' = "qtl"
  /\ UNCHANGED <<rn_run, rn_i, pos_map, pos_dupe, map_tmp, map_final,
                 renamed, rebuilt>>
  /\ KeepInputs

\* one line of the QTL table: a header on line one is kept, an empty line
\* dropped, any other line rewritten
ReplaceRow ==
  /\ rn_step = "qtl"
  /\ rn_i < Len(rn_qtl)
  /\ LET line == rn_qtl[rn_i + 1]
     IN renamed' =
          IF rn_i = 0 /\ is_probable_header_tsv(line)
            THEN Append(renamed, line)
          ELSE IF Len(IF rn_i = 0 THEN line ELSE trim(line)) = 0
            THEN renamed
          ELSE Append(renamed, replace_col2_with_map(line, id_key_map))
  /\ rn_i' = rn_i + 1
  /\ UNCHANGED <<rn_run, rn_step, id_key_map, pos_map, pos_dupe, map_tmp,
                 map_final, rebuilt>>
  /\ KeepInputs

\* flush and Ok(())
FinishRename ==
  /\ rn_step = "qtl"
  /\ rn_i = Len(rn_qtl)
  /\ rn_step' = "done"
  /\ UNCHANGED <<rn_run, rn_i, id_key_map, pos_map, pos_dupe, map_tmp,
                 map_final, renamed, rebuilt>>
  /\ KeepInputs

\* run_rename is called again on the same files
RunAgain ==
  /\ rn_step = "done"
  /\ rn_run = 1
  /\ rebuilt' = Some(renamed)
  /\ rn_run' = 2
  /\ rn_step' = "map"
  /\ rn_i' = 0
  /\ id_key_map' = EmptyMap
  /\ pos_map' = EmptyMap
  /\ pos_dupe' = {}
  /\ renamed' = <<>>
  /\ UNCHANGED <<map_tmp, map_final>>
  /\ KeepInputs

NextRename ==
  \/ CreateTempMap
  \/ BuildLine
  \/ FinishBuild
  \/ LoadMap
  \/ ReplaceRow
  \/ FinishRename
  \/ RunAgain

SpecRename == InitRename /\ [][NextRename]_vars

(***************************************************************************)
(* C29                                                                     *)
(***************************************************************************)
\* the second column of each line
Col2(lines) == [i \in 1..Len(lines) |-> split(lines[i])[2]]

\* C29: a run of run_rename that reuses the map.tsv left by an earlier
\* run writes the same column-2 values as the run that built it, also when
\* several records of the VCF carry one ID.
C29_ReuseEqualsRebuild ==
  (rn_run = 2 /\ rn_step = "done") => Col2(renamed) = Col2(rebuilt.v)

(***************************************************************************)
(* align --sort (main.rs): the comparator and the sort stage               *)
(***************************************************************************)
\* the names of the columns 0..8, as the match on prefix_key lists them
ColumnNames ==
  <<{<<"C", "H", "R", "O", "M">>, <<"c", "h", "r", "o", "m">>,
     <<"#", "C", "H", "R", "O", "M">>, <<"#", "c", "h", "r", "o", "m">>},
    {<<"P", "O", "S">>, <<"p", "o", "s">>},
    {<<"I", "D">>, <<"i", "d">>},
    {<<"R", "E", "F">>, <<"r", "e", "f">>},
    {<<"A", "L", "T">>, <<"a", "l", "t">>},
    {<<"Q", "U", "A", "L">>, <<"q", "u", "a", "l">>},
    {<<"F", "I", "L", "T", "E", "R">>,
     <<"f", "i", "l", "t", "e", "r">>},
    {<<"I", "N", "F", "O">>, <<"i", "n", "f", "o">>},
    {<<"F", "O", "R", "M", "A", "T">>,
     <<"f", "o", "r", "m", "a", "t">>}>>

\* the column a --sort key names: a column name, an index, else POS
col_index_of(key) ==
  IF \E n \in 1..Len(ColumnNames) : key \in ColumnNames[n]
    THEN (CHOOSE n \in 1..Len(ColumnNames) : key \in ColumnNames[n]) - 1
  ELSE IF parse_u64(key).some THEN u64_value(parse_u64(key).v)
  ELSE 1

\* str::parse::<f64>() for the keys of the tables below: a whole number
\* with an optional sign, or nan
parse_f64(s) ==
  IF ~parse_f64_ok(s) THEN None
  ELSE LET unsigned == IF s[1] \in {"+", "-"} THEN Tail(s) ELSE s
       IN IF to_ascii_lowercase(unsigned) = <<"n", "a", "n">>
            THEN Some([nan |-> TRUE, v |-> 0])
            ELSE LET mag == u64_value(ParseDigits(unsigned, U64Zero).v)
                 IN Some([nan |-> FALSE,
                          v |-> IF s[1] = "-" THEN 0 - mag ELSE mag])

\* f64::partial_cmp(..).unwrap_or(Ordering::Equal)
partial_cmp_or_equal(na, nb) ==
  IF na.nan \/ nb.nan THEN "Equal"
  ELSE IF na.v < nb.v THEN "Less"
  ELSE IF na.v > nb.v THEN "Greater"
  ELSE "Equal"

\* str::cmp
str_cmp(a, b) ==
  IF str_lt(a, b) THEN "Less" ELSE IF str_lt(b, a) THEN "Greater" ELSE "Equal"

\* Ordering::reverse
ordering_reverse(ord) ==
  IF ord = "Less" THEN "Greater" ELSE IF ord = "Greater" THEN "Less" ELSE ord

\* a_fields.get(col_index).copied().unwrap_or("")
sort_key(line, col_index) ==
  LET line_fields == split(line)
  IN IF col_index < Len(line_fields) THEN line_fields[col_index + 1] ELSE <<>>

\* the closure handed to sort_by
compare(a, b, col_index, rev) ==
  LET a_key == sort_key(a, col_index)
      b_key == sort_key(b, col_index)
      na == parse_f64(a_key)
      nb == parse_f64(b_key)
      ord == IF na.some /\ nb.some THEN partial_cmp_or_equal(na.v, nb.v)
             ELSE str_cmp(a_key, b_key)
  IN IF rev THEN ordering_reverse(ord) ELSE ord

\* whether the closure is a total order on the lines, as sort_by asks
is_total_order(v, col_index, rev) ==
  \A i, j, k \in 1..Len(v) :
    /\ compare(v[i], v[j], col_index, rev) # "Greater"
    /\ compare(v[j], v[k], col_index, rev) # "Greater"
    => compare(v[i], v[k], col_index, rev) # "Greater"

\* the orders of n lines
permutations(n) ==
  {f \in [1..n -> 1..n] : \A i, j \in 1..n : f[i] = f[j] => i = j}

\* slice::sort_by: the stable sort when the closure is a total order on
\* the lines; the order is unspecified when it is not
sort_by(v, col_index, rev) ==
  LET stable(f) ==
        \A i, j \in 1..Len(v) :
          i < j =>
            LET ord == compare(v[f[i]], v[f[j]], col_index, rev)
            IN ord # "Greater" /\ (ord = "Equal" => f[i] < f[j])
  IN {[i \in 1..Len(v) |-> v[f[i]]] :
        f \in {g \in permutations(Len(v)) :
                 is_total_order(v, col_index, rev) => stable(g)}}

(***************************************************************************)
(* align --sort: one sort                                                  *)
(***************************************************************************)
MaxSortLines == 3

\* lines of the temporary file: POS is 9, 10, 1a, 9 again and nan
SortHeaderLine == <<"#", "h">>

SortLine9 == <<"c", TAB, "9">>

SortLine10 == <<"b", TAB, "1", "0">>

SortLineText == <<"a", TAB, "1", "a">>

SortLine9Again == <<"d", TAB, "9">>

SortLineNan == <<"e", TAB, "n", "a", "n">>

SortLines ==
  {SortHeaderLine, SortLine9, SortLine10, SortLineText, SortLine9Again,
   SortLineNan}

SortFiles == UNION {[1..n -> SortLines] : n \in 0..MaxSortLines}

SortKeys == {<<"P", "O", "S">>, <<"C", "H", "R", "O", "M">>}

InitSort ==
  /\ sort_in \in SortFiles
  /\ prefix_key \in SortKeys
  /\ reverse \in BOOLEAN
  /\ sort_step = "read"
  /\ sort_i = 0
  /\ header_lines = <<>>
  /\ data_lines = <<>>
  /\ sorted_file = None
  /\ SortAlone

\* one line of the temporary file: a header line or a data line
ReadSortLine ==
  /\ sort_step = "read"
  /\ sort_i < Len(sort_in)
  /\ LET l == sort_in[sort_i + 1]
     IN IF Len(l) > 0 /\ l[1] = "#"
          THEN /\ header_lines' = Append(header_lines, l)
               /\ UNCHANGED data_lines
          ELSE /\ data_lines' = Append(data_lines, l)
               /\ UNCHANGED header_lines
  /\ sort_i' = sort_i + 1
  /\ UNCHANGED <<sort_in, prefix_key, reverse, sort_step, sorted_file,
                 notSort>>

\* data_lines.sort_by(..)
SortDataLines ==
  /\ sort_step = "read"
  /\ sort_i = Len(sort_in)
  /\ data_lines' \in sort_by(data_lines, col_index_of(prefix_key), reverse)
  /\ sort_step' = "write"
  /\ UNCHANGED <<sort_in, prefix_key, reverse, sort_i, header_lines,
                 sorted_file, notSort>>

\* the header lines, then the data lines, written to final_output_path
WriteSorted ==
  /\ sort_step = "write"
  /\ sorted_file' = Some(header_lines \o data_lines)
  /\ sort_step' = "done"
  /\ UNCHANGED <<sort_in, prefix_key, reverse, sort_i, header_lines,
                 data_lines, notSort>>

NextSort == ReadSortLine \/ SortDataLines \/ WriteSorted

SpecSort == InitSort /\ [][NextSort]_vars

(***************************************************************************)
(* C30                                                                     *)
(***************************************************************************)
\* the header lines and the data lines of the input, in its order
RECURSIVE LinesWhere(_, _)
LinesWhere(lines, hdr) ==
  IF Len(lines) = 0 THEN <<>>
  ELSE (IF (Len(lines[1]) > 0 /\ lines[1][1] = "#") = hdr
          THEN <<lines[1]>> ELSE <<>>)
         \o LinesWhere(Tail(lines), hdr)

\* a comes no later than b under the comparator of the run
NoLater(a, b) ==
  compare(a, b, col_index_of(prefix_key), reverse) # "Greater"

\* C30: the comparator of align --sort is a total preorder on the data
\* lines, also when numbers and text are mixed in the key column, and the
\* file written is the header lines in their order followed by a
\* permutation of the data lines in which no line comes later than the
\* line after it (the comparator being reversed with --reverse).
C30_SortedOutput ==
  LET body == LinesWhere(sort_in, FALSE)
      head == LinesWhere(sort_in, TRUE)
  IN sorted_file.some =>
       /\ \A i, j, k \in 1..Len(body) :
            NoLater(body[i], body[j]) /\ NoLater(body[j], body[k])
              => NoLater(body[i], body[k])
       /\ \E f \in permutations(Len(body)) :
            sorted_file.v = head \o [i \in 1..Len(body) |-> body[f[i]]]
       /\ \A i \in 1..(Len(sorted_file.v) - 1) :
            i > Len(head) =>
              NoLater(sorted_file.v[i], sorted_file.v[i + 1])

====
